---- MODULE Spec2Model ----
(***************************************************************************)
(* Model of the agent conversation engine of pawelhaladyj/office:          *)
(*   common/acl.py   the AclMessage envelope and its SPADE wire forms      *)
(*   common/fipa.py  transition rules, build_message, make_reply           *)
(*   common/base.py  InboxBehaviour, BaseACLAgent (registry, router,       *)
(*                   handle_acl role logic, send_acl)                      *)
(*   common/llm.py   ai_respond_to_acl (delegated reply)                   *)
(*                                                                         *)
(* Python values are encoded as follows.  Every scalar is a TLA+ string;   *)
(* None, "key absent from a dict" and "a JSON value that is not a string"  *)
(* are three reserved strings.  A dict payload is a set of <<key, value>>  *)
(* pairs.  A raised exception is the record [raised |-> <type>].           *)
(***************************************************************************)
EXTENDS Integers, Sequences, FiniteSets, TLC

VARIABLES
    call,                 \* pure-function harness: the call being made
    ret,                  \* pure-function harness: its result
    _REGISTRY,            \* BaseACLAgent._REGISTRY: alias -> descriptor
    started,              \* agent -> setup() has completed
    _role,                \* agent -> BaseACLAgent._role
    _auto_ai,             \* agent -> BaseACLAgent._auto_ai
    _pending,             \* agent -> (conversation id -> initiator jid)
    _last_sender_by_cid,  \* agent -> (conversation id -> jid)
    inbox,                \* agent -> SPADE messages waiting for InboxBehaviour
    sendq,                \* agent -> _SendOnce behaviours not yet run
    pc,                   \* agent -> position of its InboxBehaviour.run
    cur,                  \* agent -> envelope being handled while suspended
    injected,             \* number of messages peers have sent so far
    llm_calls,            \* number of backend calls made for cur
    awaiting,             \* history: <<cid, initiator>> of every REQUEST a
                          \* coordinator handled and no terminal followed yet
    last,                 \* record of the most recently completed handling
    _STORE,               \* common.history._STORE: agent name -> entries
    recorded,             \* history: agent name -> every entry handed to
                          \* record, in call order
    now,                  \* asyncio.get_event_loop().time(), in seconds
    heap,                 \* list objects: reference -> elements
    held,                 \* a mapping registry_snapshot returned to a caller
    sink,                 \* SPADE messages waiting for the classic behaviour
    outdir,               \* records appended to the files under out/
    _last_mode_by_cid,    \* HumanAgent: conversation id -> "json" | "classic"
    arrived,              \* history: the messages delivered to the human bridge
    _character,           \* agent -> its _character attribute
    upd_tasks             \* the _upd tasks set_character created, oldest first

vars == <<call, ret, _REGISTRY, started, _role, _auto_ai, _pending,
          _last_sender_by_cid, inbox, sendq, pc, cur, injected, llm_calls,
          awaiting, last, _STORE, recorded, now, heap, held,
          sink, outdir, _last_mode_by_cid, arrived, _character, upd_tasks>>

-----------------------------------------------------------------------------
(* Python values *)

None   == "<None>"
Absent == "<absent>"
NonStr == "<non-str>"

Raise(kind) == [raised |-> kind]
Raised(r) == "raised" \in DOMAIN r

\* a or b
Or(a, b) == IF a \in {None, ""} THEN b ELSE a

\* d.get(key) on a record-encoded dict whose missing keys hold Absent
Get(v) == IF v = Absent THEN None ELSE v

\* d.setdefault(key, default): value of d[key] afterwards
SetDefault(v, default) == IF v = Absent THEN default ELSE v

\* payload.get(key)
PayloadGet(payload, key) ==
    IF \E p \in payload : p[1] = key
    THEN (CHOOSE p \in payload : p[1] = key)[2]
    ELSE None

\* data.setdefault("text", text) on a payload
PayloadSetDefault(payload, key, value) ==
    IF \E p \in payload : p[1] = key THEN payload
    ELSE payload \cup {<<key, value>>}

\* str.upper() on the strings that occur as performatives
Upper(s) ==
    CASE s \in {"request", "Request"} -> "REQUEST"
      [] s \in {"agree", "Agree"}     -> "AGREE"
      [] s \in {"refuse"}             -> "REFUSE"
      [] s \in {"inform", "Inform"}   -> "INFORM"
      [] s \in {"failure"}            -> "FAILURE"
      [] s \in {"cancel"}             -> "CANCEL"
      [] s \in {"propose"}            -> "PROPOSE"
      [] s \in {"list"}               -> "LIST"
      [] s \in {"discover"}           -> "DISCOVER"
      [] OTHER                        -> s

\* str.strip() on the strings that occur as conversation ids
Strip(s) ==
    CASE s \in {" ", "  "} -> ""
      [] s = " c1 "        -> "c1"
      [] OTHER             -> s

-----------------------------------------------------------------------------
(* Python dicts as functions *)

EmptyDict == [k \in {} |-> None]
DictGet(d, k) == IF k \in DOMAIN d THEN d[k] ELSE None
DictSet(d, k, v) == [x \in DOMAIN d \cup {k} |-> IF x = k THEN v ELSE d[x]]
DictPop(d, k) == [x \in DOMAIN d \ {k} |-> d[x]]

-----------------------------------------------------------------------------
(* common/acl.py *)

ALLOWED_PERFORMATIVES ==
    {"REQUEST", "AGREE", "REFUSE", "INFORM", "FAILURE", "CANCEL"}

\* keyword arguments / a parsed JSON object, every field possibly Absent
Obj(performative, conversation_id, protocol, ontology, language, reply_by, sender, receiver, payload_kind, payload) ==
    [performative |-> performative, conversation_id |-> conversation_id,
     protocol |-> protocol, ontology |-> ontology, language |-> language,
     reply_by |-> reply_by, sender |-> sender, receiver |-> receiver,
     payload_kind |-> payload_kind, payload |-> payload]

\* variant: checks the upper-cased value but stores the value as given
_perf_upper_and_allowed_m(v) ==
    LET v_up == Upper(Or(v, ""))
    IN IF v_up \notin ALLOWED_PERFORMATIVES THEN Raise("ValueError") ELSE [v |-> v]

_perf_upper_and_allowed(v) ==
    LET v_up == Upper(Or(v, ""))
    IN IF v_up \notin ALLOWED_PERFORMATIVES THEN Raise("ValueError") ELSE [v |-> v_up]

\* variant: rejects the empty id only, without strip()
_conv_required_m(v) ==
    IF v \in {None, ""} THEN Raise("ValueError") ELSE [v |-> v]

_conv_required(v) ==
    IF v \in {None, ""} \/ Strip(v) \in {None, ""} THEN Raise("ValueError") ELSE [v |-> v]

\* AclMessage(**obj) / AclMessage.model_validate(obj): pydantic checks the
\* declared types, fills the defaults, then runs the field validators
AclMessage(obj) ==
    LET protocol == SetDefault(obj.protocol, "fipa-request")
        ontology == SetDefault(obj.ontology, "office.demo")
        language == SetDefault(obj.language, "json")
        reply_by == SetDefault(obj.reply_by, None)
        sender   == SetDefault(obj.sender, None)
        receiver == SetDefault(obj.receiver, None)
        payload  == IF obj.payload_kind = "absent" THEN {} ELSE obj.payload
    IN  IF \/ obj.performative \in {Absent, None, NonStr}
           \/ obj.conversation_id \in {Absent, None, NonStr}
           \/ protocol \in {None, NonStr}
           \/ ontology \in {None, NonStr}
           \/ language \in {None, NonStr}
           \/ NonStr \in {reply_by, sender, receiver}
           \/ obj.payload_kind = "nondict"
        THEN Raise("ValidationError")
        ELSE IF Raised(_perf_upper_and_allowed(obj.performative))
                \/ Raised(_conv_required(obj.conversation_id))
        THEN Raise("ValidationError")
        ELSE [performative |-> _perf_upper_and_allowed(obj.performative).v,
              conversation_id |-> _conv_required(obj.conversation_id).v,
              protocol |-> protocol, ontology |-> ontology,
              language |-> language, reply_by |-> reply_by,
              sender |-> sender, receiver |-> receiver, payload |-> payload]

model_validate(obj) == AclMessage(obj)

\* self.model_dump(): every field is present in the dumped dict
model_dump(self) ==
    Obj(self.performative, self.conversation_id, self.protocol, self.ontology,
        self.language, self.reply_by, self.sender, self.receiver,
        "dict", self.payload)

\* the text of a JSON body stands for itself only where it is copied
JsonText == "<json-text>"

\* a SPADE Message
Message(to, sender, body_kind, body_text, body_obj, metadata) ==
    [to |-> to, sender |-> sender, body_kind |-> body_kind,
     body_text |-> body_text, body_obj |-> body_obj, metadata |-> metadata]

Metadata(performative, protocol, conversation_id, conversation_legacy, ontology, language, reply_by) ==
    [performative |-> performative, protocol |-> protocol,
     conversation_id |-> conversation_id,
     conversation_legacy |-> conversation_legacy,
     ontology |-> ontology, language |-> language, reply_by |-> reply_by]

NoObj == Obj(Absent, Absent, Absent, Absent, Absent, Absent, Absent, Absent,
             "absent", {})

to_spade(self, to_jid, sender_jid) ==
    LET dump == model_dump(self)
        body == [dump EXCEPT !.sender = SetDefault(dump.sender, sender_jid),
                             !.receiver = SetDefault(dump.receiver, to_jid)]
        proto == Or(self.protocol, "fipa-request")
        rb == self.reply_by
    IN  Message(to_jid, sender_jid, "json", JsonText, body,
                Metadata(self.performative, proto, self.conversation_id,
                         Absent, self.ontology, self.language,
                         IF rb \in {None, ""} THEN Absent ELSE rb))

\* variant: replaces the payload whenever it is falsy, so also when it is {}
from_spade_m(msg) ==
    LET md    == msg.metadata
        conv  == Or(Get(md.conversation_id), Get(md.conversation_legacy))
        perf  == Upper(Or(Get(md.performative), ""))
        proto == Or(Get(md.protocol), "fipa-request")
        onto  == Or(Get(md.ontology), "office.demo")
        lang  == Or(Get(md.language), "json")
        rby   == Get(md.reply_by)
        snd   == IF msg.sender \in {None, ""} THEN None ELSE msg.sender
        rcv   == IF msg.to \in {None, ""} THEN None ELSE msg.to
        o     == msg.body_obj
        keep  == o.payload_kind = "dict" /\ o.payload # {}
        obj   == Obj(SetDefault(o.performative, perf),
                     SetDefault(o.conversation_id, conv),
                     SetDefault(o.protocol, proto),
                     SetDefault(o.ontology, onto),
                     SetDefault(o.language, lang),
                     SetDefault(o.reply_by, rby),
                     SetDefault(o.sender, snd),
                     SetDefault(o.receiver, rcv),
                     "dict",
                     IF keep THEN o.payload ELSE {<<"text", msg.body_text>>})
        payload == IF msg.body_kind = "empty" THEN {}
                   ELSE {<<"text", msg.body_text>>}
        fallback == AclMessage(Obj(perf, conv, proto, onto, lang, rby, snd,
                                   rcv, "dict", payload))
    IN  IF msg.body_kind = "json" /\ ~Raised(model_validate(obj))
        THEN model_validate(obj)
        ELSE fallback

from_spade(msg) ==
    LET md    == msg.metadata
        conv  == Or(Get(md.conversation_id), Get(md.conversation_legacy))
        perf  == Upper(Or(Get(md.performative), ""))
        proto == Or(Get(md.protocol), "fipa-request")
        onto  == Or(Get(md.ontology), "office.demo")
        lang  == Or(Get(md.language), "json")
        rby   == Get(md.reply_by)
        snd   == IF msg.sender \in {None, ""} THEN None ELSE msg.sender
        rcv   == IF msg.to \in {None, ""} THEN None ELSE msg.to
        o     == msg.body_obj
        keep  == o.payload_kind = "dict"
        obj   == Obj(SetDefault(o.performative, perf),
                     SetDefault(o.conversation_id, conv),
                     SetDefault(o.protocol, proto),
                     SetDefault(o.ontology, onto),
                     SetDefault(o.language, lang),
                     SetDefault(o.reply_by, rby),
                     SetDefault(o.sender, snd),
                     SetDefault(o.receiver, rcv),
                     "dict",
                     IF keep THEN o.payload ELSE {<<"text", msg.body_text>>})
        payload == IF msg.body_kind = "empty" THEN {}
                   ELSE {<<"text", msg.body_text>>}
        fallback == AclMessage(Obj(perf, conv, proto, onto, lang, rby, snd,
                                   rcv, "dict", payload))
    IN  IF msg.body_kind = "json" /\ ~Raised(model_validate(obj))
        THEN model_validate(obj)
        ELSE fallback

-----------------------------------------------------------------------------
(* common/fipa.py *)

_REQUEST_REPLIES == {"AGREE", "REFUSE"}
_AFTER_AGREE == {"INFORM", "FAILURE"}

\* variant: compares the incoming performative as given, without upper()
is_valid_transition_m(incoming_perf, outgoing_perf) ==
    LET out_up == Upper(outgoing_perf)
    IN  IF incoming_perf = None THEN out_up \in ALLOWED_PERFORMATIVES
        ELSE IF incoming_perf = "REQUEST" THEN out_up \in _REQUEST_REPLIES
        ELSE IF incoming_perf = "AGREE" THEN out_up \in _AFTER_AGREE
        ELSE out_up \in ALLOWED_PERFORMATIVES

is_valid_transition(incoming_perf, outgoing_perf) ==
    LET out_up == Upper(outgoing_perf)
        inc_up == Upper(incoming_perf)
    IN  IF incoming_perf = None THEN out_up \in ALLOWED_PERFORMATIVES
        ELSE IF inc_up = "REQUEST" THEN out_up \in _REQUEST_REPLIES
        ELSE IF inc_up = "AGREE" THEN out_up \in _AFTER_AGREE
        ELSE out_up \in ALLOWED_PERFORMATIVES

\* iso_in(seconds): the timestamp `seconds` from now
iso_in(seconds) == IF seconds = 30 THEN "<now+30s>" ELSE "<now+5s>"

\* ensure_reply_by(None)
ensure_reply_by_default == iso_in(30)

\* Instants are counted in ticks, TicksPerSecond to the second, so that
\* now_utc() and a parsed value may fall between whole seconds.
TicksPerSecond == 2
MaxNowTicks == 5      \* now_utc() ranges over 0..MaxNowTicks
MaxValueTicks == 14   \* a parsed reply_by ranges over 0..MaxValueTicks

min_seconds == 5
default_seconds == 30

\* a reply_by argument: None, a string fromisoformat rejects, or a string
\* that parses to the instant t
NoValue == [kind |-> "none", t |-> 0]
BadValue == [kind |-> "unparseable", t |-> 0]
IsoValue(t) == [kind |-> "iso", t |-> t]

\* _to_iso_utc(dt): replace(microsecond=0) drops the fraction of a second;
\* the result is the instant the returned string denotes
_to_iso_utc(dt) == (dt \div TicksPerSecond) * TicksPerSecond

\* iso_in(seconds) evaluated when now_utc() returns t
iso_in_at(t, seconds) == _to_iso_utc(t + seconds * TicksPerSecond)

\* variant: returns a parseable value as it is, without the minimum lead
ensure_reply_by_m(value, t) ==
    IF value.kind = "none" THEN iso_in_at(t, default_seconds)
    ELSE IF value.kind = "unparseable" THEN iso_in_at(t, default_seconds)
    ELSE _to_iso_utc(value.t)

\* ensure_reply_by(value), evaluated when now_utc() returns t
ensure_reply_by(value, t) ==
    IF value.kind = "none" THEN iso_in_at(t, default_seconds)
    ELSE IF value.kind = "unparseable" THEN iso_in_at(t, default_seconds)
    ELSE LET min_dt == t + min_seconds * TicksPerSecond
             dt == IF value.t < min_dt THEN min_dt ELSE value.t
         IN  _to_iso_utc(dt)

\* new_conv_id(): a fresh id
new_conv_id == "conv-new"

\* build_message(performative=..., conversation_id=..., payload=..., text=...)
build_message(performative, conversation_id, payload, text) ==
    LET cid  == IF conversation_id = None THEN new_conv_id ELSE conversation_id
        data == IF text # None THEN PayloadSetDefault(payload, "text", text)
                ELSE payload
    IN  AclMessage(Obj(Upper(performative), cid, "fipa-request", "office.demo",
                       "json", None, Absent, Absent, "dict", data))

\* make_reply(incoming, performative=..., payload=..., text=..., protocol=...,
\*            ontology=..., language=..., strict_transition=...); no caller
\* passes reply_by, so rb is None
\* variant: gives the reply a fresh conversation id
make_reply_m(incoming, performative, payload, text, protocol, ontology, language, strict_transition) ==
    LET perf_up == Upper(performative)
        data == IF text # None THEN PayloadSetDefault(payload, "text", text)
                ELSE payload
    IN  IF perf_up \notin ALLOWED_PERFORMATIVES THEN Raise("ValueError")
        ELSE IF strict_transition
                /\ ~is_valid_transition(incoming.performative, perf_up)
        THEN Raise("ValueError")
        ELSE AclMessage(Obj(perf_up, new_conv_id,
                            Or(protocol, Or(incoming.protocol, "fipa-request")),
                            Or(ontology, Or(incoming.ontology, "office.demo")),
                            Or(language, Or(incoming.language, "json")),
                            None, Absent, Absent, "dict", data))

make_reply(incoming, performative, payload, text, protocol, ontology, language, strict_transition) ==
    LET perf_up == Upper(performative)
        data == IF text # None THEN PayloadSetDefault(payload, "text", text)
                ELSE payload
    IN  IF perf_up \notin ALLOWED_PERFORMATIVES THEN Raise("ValueError")
        ELSE IF strict_transition
                /\ ~is_valid_transition(incoming.performative, perf_up)
        THEN Raise("ValueError")
        ELSE AclMessage(Obj(perf_up, incoming.conversation_id,
                            Or(protocol, Or(incoming.protocol, "fipa-request")),
                            Or(ontology, Or(incoming.ontology, "office.demo")),
                            Or(language, Or(incoming.language, "json")),
                            None, Absent, Absent, "dict", data))

-----------------------------------------------------------------------------
(* common/llm.py *)

\* What _call_openai hands back to ai_respond_to_acl, by the kind of HTTP
\* outcome: "raise" (httpx timeout or transport error), "json_obj" (the
\* response body is a JSON object, obj), "json_other" (valid JSON that is
\* not an object), "non_json" (the body is wrapped as {"_non_json_body": ..})
_call_openai(response) ==
    CASE response.kind = "raise"      -> Raise("HTTPError")
      [] response.kind = "json_obj"   -> [is_dict |-> TRUE, obj |-> response.obj]
      [] response.kind = "json_other" -> [is_dict |-> FALSE, obj |-> NoObj]
      [] OTHER                        -> [is_dict |-> TRUE, obj |-> NoObj]

\* the REFUSE built at each of the three error exits
RefuseFor(incoming, payload) ==
    AclMessage(Obj("REFUSE", incoming.conversation_id,
                   Or(incoming.protocol, "fipa-request"), incoming.ontology,
                   "json", Absent, Absent, Absent, "dict", payload))

ValidationErrorPayload == {<<"text", "Validation error">>, <<"error", "<exc>">>}
InvalidTransitionPayload == {<<"text", "Invalid transition, refusing.">>}

\* variant: returns the validated plan without the transition check
ai_respond_to_acl_m(incoming, response) ==
    LET raw == _call_openai(response)
        o   == raw.obj
        obj == [o EXCEPT
                  !.reply_by = IF Get(o.reply_by) \in {None, ""}
                               THEN ensure_reply_by_default ELSE o.reply_by,
                  !.conversation_id = incoming.conversation_id,
                  !.protocol = Or(incoming.protocol, "fipa-request"),
                  !.ontology = Or(Get(o.ontology), incoming.ontology),
                  !.language = "json",
                  !.sender = None,
                  !.receiver = None]
        answer == model_validate(obj)
    IN  IF Raised(raw) THEN raw
        ELSE IF ~raw.is_dict \/ Raised(answer)
        THEN RefuseFor(incoming, ValidationErrorPayload)
        ELSE answer

ai_respond_to_acl(incoming, response) ==
    LET raw == _call_openai(response)
        o   == raw.obj
        obj == [o EXCEPT
                  !.reply_by = IF Get(o.reply_by) \in {None, ""}
                               THEN ensure_reply_by_default ELSE o.reply_by,
                  !.conversation_id = incoming.conversation_id,
                  !.protocol = Or(incoming.protocol, "fipa-request"),
                  !.ontology = Or(Get(o.ontology), incoming.ontology),
                  !.language = "json",
                  !.sender = None,
                  !.receiver = None]
        answer == model_validate(obj)
    IN  IF Raised(raw) THEN raw
        ELSE IF ~raw.is_dict \/ Raised(answer)
        THEN RefuseFor(incoming, ValidationErrorPayload)
        ELSE IF ~is_valid_transition(incoming.performative, answer.performative)
        THEN RefuseFor(incoming, InvalidTransitionPayload)
        ELSE answer

-----------------------------------------------------------------------------
(* common/history.py *)

\* os.getenv("ACL_HISTORY_LIMIT"), as configured for the runs checked here
ACL_HISTORY_LIMIT == 2

\* `import common.history`: line 18 is indented under a statement at column
\* 0 and line 38 holds escaped quotes, so the module does not compile and
\* every import of it raises
history_import == Raise("IndentationError")

\* max(1, int(os.getenv("ACL_HISTORY_LIMIT", "20")))
_default_limit == IF ACL_HISTORY_LIMIT < 1 THEN 1 ELSE ACL_HISTORY_LIMIT

\* _STORE.get(agent_name, []) as a sequence
Buffer(store, agent_name) ==
    IF agent_name \in DOMAIN store THEN store[agent_name] ELSE <<>>

\* the last n elements of a sequence (all of it when it is shorter)
LastN(s, n) == IF Len(s) <= n THEN s ELSE SubSeq(s, Len(s) - n + 1, Len(s))

\* an entry (direction, acl, peer_jid)
Entry(direction, acl, peer_jid) ==
    [direction |-> direction, acl |-> acl, peer |-> peer_jid]

\* the body of record: append to deque(maxlen=_default_limit())
record(store, agent_name, entry) ==
    DictSet(store, agent_name,
            LastN(Append(Buffer(store, agent_name), entry), _default_limit))

\* data[-limit:] as Python slices it, for an integer limit (-0 is 0, so
\* limit 0 slices from the start); the limit=None default is not called here
Slice(data, limit) ==
    IF limit = 0 THEN data
    ELSE IF limit > 0 THEN LastN(data, limit)
    ELSE SubSeq(data, (0 - limit) + 1, Len(data))

\* the body of recent
recent(store, agent_name, limit) ==
    LET buf == Buffer(store, agent_name)
    IN  IF buf = <<>> THEN <<>> ELSE Slice(buf, limit)

\* the body of recent_thread
recent_thread(store, agent_name, conversation_id, limit) ==
    LET buf == Buffer(store, agent_name)
        keep == { i \in 1..Len(buf) :
                    Or(buf[i].acl.conversation_id, "") = conversation_id }
        RECURSIVE pick(_)
        pick(i) == IF i > Len(buf) THEN <<>>
                   ELSE IF i \in keep THEN <<buf[i]>> \o pick(i + 1)
                   ELSE pick(i + 1)
    IN  Slice(pick(1), limit)

\* try: from common.history import record as _rec; _rec(...)
\* except Exception: pass
_rec(store, agent_name, entry) ==
    IF Raised(history_import) THEN store ELSE record(store, agent_name, entry)

\* _rec for each entry in turn
RECURSIVE _rec_all(_, _, _)
_rec_all(store, agent_name, entries) ==
    IF entries = <<>> THEN store
    ELSE _rec_all(_rec(store, agent_name, Head(entries)), agent_name,
                  Tail(entries))

-----------------------------------------------------------------------------
(* Function calls on bounded inputs *)

PerfInputs ==
    {"REQUEST", "request", "Request", "AGREE", "agree", "Agree", "REFUSE",
     "refuse", "INFORM", "inform", "Inform", "FAILURE", "failure", "CANCEL",
     "cancel", "PROPOSE", "propose", "QUERY", ""}

ConvInputs == {"c1", " c1 ", "", " ", "  ", None, Absent}

JidInputs == {"human@xmpp", "provider_office@xmpp"}

PayloadInputs ==
    {{}, {<<"text", "hello">>}, {<<"action", "LIST">>, <<"text", "hello">>}}

\* valid envelopes, as any construction path can produce them
EnvelopeInputs ==
    { AclMessage(Obj(p, c, pr, "office.demo", l, rb, s, s, "dict", pl)) :
        p \in {"REQUEST", "inform", "CANCEL"}, c \in {"c1", " c1 "},
        pr \in {"fipa-request", ""}, l \in {"json", "text"},
        rb \in {None, "<now+30s>"}, s \in {None, "human@xmpp"},
        pl \in PayloadInputs }

BodyObjInputs ==
    { Obj(p, c, Absent, Absent, Absent, Absent, Absent, Absent, k,
          IF k = "dict" THEN pl ELSE {}) :
        p \in {Absent, "agree", "PROPOSE", None},
        c \in {Absent, "c1", None, " "},
        k \in {"absent", "nondict", "dict"},
        pl \in {{}, {<<"text", "hello">>}} }

MetadataInputs ==
    { Metadata(p, Absent, c, lc, Absent, l, Absent) :
        p \in {Absent, "request", "INFORM", "PROPOSE"},
        c \in {Absent, "c1", " "}, lc \in {Absent, "c2"},
        l \in {Absent, "text"} }

\* SPADE messages as a peer can put them on the wire
MessageInputs ==
    { Message("provider_office@xmpp", "human@xmpp", "json", JsonText, o, md) :
        o \in BodyObjInputs, md \in MetadataInputs }
    \cup
    { Message("provider_office@xmpp", "human@xmpp", k,
              IF k = "empty" THEN "" ELSE "hello", NoObj, md) :
        k \in {"empty", "text", "badjson", "jsonlist"}, md \in MetadataInputs }

PlanInputs ==
    { Obj(p, c, Absent, o, Absent, rb, Absent, Absent, k, {<<"text", "ok">>}) :
        p \in {"AGREE", "agree", "REFUSE", "INFORM", "FAILURE", "REQUEST",
               "CANCEL", "PROPOSE", "", None, NonStr, Absent},
        c \in {Absent, "c2"}, o \in {Absent, NonStr},
        rb \in {Absent, "<now+5s>"}, k \in {"dict", "nondict", "absent"} }

\* outcomes of one backend call
ResponseInputs ==
    { [kind |-> "json_obj", obj |-> o] : o \in PlanInputs }
    \cup { [kind |-> k, obj |-> NoObj] : k \in {"raise", "json_other", "non_json"} }

IncomingInputs ==
    { AclMessage(Obj(p, c, pr, on, "json", None, None, None,
                     "dict", {<<"text", "hello">>})) :
        p \in ALLOWED_PERFORMATIVES, c \in {"c1"}, pr \in {"fipa-request", ""},
        on \in {"office.demo", "office.registry", ""} }

CallInputs ==
    { [fn |-> "is_valid_transition", incoming_perf |-> i, outgoing_perf |-> o] :
        i \in PerfInputs \cup {None}, o \in PerfInputs }
    \cup
    { [fn |-> "AclMessage", performative |-> p, conversation_id |-> c,
       payload_kind |-> k] :
        p \in PerfInputs \cup {None, NonStr, Absent}, c \in ConvInputs,
        k \in {"absent", "dict", "nondict"} }
    \cup
    { [fn |-> "build_message", performative |-> p, conversation_id |-> c,
       payload |-> pl, text |-> t] :
        p \in PerfInputs, c \in ConvInputs \ {Absent},
        pl \in PayloadInputs, t \in {None, "hi"} }
    \cup
    { [fn |-> "make_reply", incoming |-> m, performative |-> p, payload |-> pl,
       protocol |-> pr, ontology |-> on, strict_transition |-> st] :
        m \in IncomingInputs, p \in PerfInputs, pl \in PayloadInputs,
        pr \in {None, "", "fipa-query"}, on \in {None, "office.audit"},
        st \in BOOLEAN }
    \cup
    { [fn |-> "from_spade", msg |-> m] : m \in MessageInputs }
    \cup
    { [fn |-> "to_spade", self |-> m, to_jid |-> t, sender_jid |-> s] :
        m \in EnvelopeInputs, t \in JidInputs, s \in JidInputs }
    \cup
    { [fn |-> "ai_respond_to_acl", incoming |-> m, response |-> r] :
        m \in IncomingInputs, r \in ResponseInputs }

NotCalled == [unset |-> TRUE]
Returned(fn) == call.fn = fn /\ ret # NotCalled

-----------------------------------------------------------------------------
(* Agents, peers and their configuration *)

K == "coordinator_office@xmpp"     \* runs with ROLE_COORDINATOR=coordinator
P == "provider_office@xmpp"        \* runs with ROLE_PROVIDER=provider_simple
R == "auditor@xmpp"                \* no role
G == "explorer@xmpp"               \* no role, used with AGENT_AUTO_AI
Agents == {K, P, R, G}
CoordAgents == {K, P, R}
AiAgents == {G}
Peers == {"human@xmpp", "other@xmpp"}

MaxInject == 2      \* messages the peers send in one run
MaxInbox == 2       \* messages an inbox holds before the transport drops

\* the local part of a jid, split at "_"
LocalParts(jid) ==
    CASE jid = K -> <<"coordinator", "office">>
      [] jid = P -> <<"provider", "office">>
      [] jid = R -> <<"auditor">>
      [] jid = G -> <<"explorer">>
      [] jid = "provider_bakery@xmpp" -> <<"provider", "bakery">>
      [] OTHER   -> <<"human">>

\* "@" in s: every jid has one, no alias has
HasAt(s) == s \in Agents \cup Peers

\* "~" stands for a letter outside a-z (the texts are Polish)
OrderText == "poprosz~ 6 bu~ek"
DefaultNeed == "zam~wienie pieczywa"
DefaultCharacter == "Tradycyjny, rzeczowy styl; rola og~lna."

\* re.findall(r"[a-z0-9]{3,}", s.lower()) as a set
tok(s) ==
    CASE s = OrderText        -> {"poprosz"}
      [] s = DefaultNeed      -> {"zam", "wienie", "pieczywa"}
      [] s = DefaultCharacter -> {"tradycyjny", "rzeczowy", "styl", "rola", "lna"}
      [] s = "dostawca pieczywa" -> {"dostawca", "pieczywa"}
      [] s = "audyt raport"   -> {"audyt", "raport"}
      [] s = "raport"         -> {"raport"}
      [] s = "raport pieczywa"   -> {"raport", "pieczywa"}
      [] s = "rzeczowy pieczywa" -> {"rzeczowy", "pieczywa"}
      [] s = "BaseACLAgent"   -> {"baseaclagent"}
      [] OTHER                -> {}

\* position of an alias in lexical order
AliasRank(alias) ==
    CASE alias = "auditor" -> 1
      [] alias = "coordinator" -> 2
      [] alias = "explorer" -> 3
      [] alias = "human" -> 4
      [] OTHER -> 5

\* os.getenv(f"ROLE_{alias.upper()}") or os.getenv("AGENT_ROLE") or ""
_env_role_for(alias) ==
    CASE alias = "coordinator" -> "coordinator"
      [] alias = "provider" -> "provider_simple"
      [] OTHER -> ""

\* os.getenv(f"CHAR_{alias.upper()}") or ... or the default character
_env_character_for(alias) ==
    CASE alias = "provider" -> "dostawca pieczywa"
      [] alias = "auditor" -> "audyt raport"
      [] OTHER -> DefaultCharacter

\* os.getenv(f"JID_{alias.upper()}"): only JID_ARCHIVE is configured
EnvJid(alias) == IF alias = "archive" THEN "archive@xmpp" ELSE None

-----------------------------------------------------------------------------
(* common/base.py: registry, resolve, router *)

_guess_alias(jid_str) == Head(LocalParts(jid_str))

alias(self) == _guess_alias(self)

\* {k: dict(v) for k, v in cls._REGISTRY.items()}
registry_snapshot(registry) == [k \in DOMAIN registry |-> registry[k]]

\* variant: keeps the first descriptor registered for an alias
_register_m(registry, alias_, info) ==
    IF alias_ \in DOMAIN registry THEN registry ELSE DictSet(registry, alias_, info)

_register(registry, alias_, info) == DictSet(registry, alias_, info)

\* variant: looks the name up in the registry before testing for "@"
resolve_m(registry, alias_or_jid) ==
    LET snapshot == registry_snapshot(registry)
    IN  IF alias_or_jid \in DOMAIN snapshot THEN snapshot[alias_or_jid].jid
        ELSE IF HasAt(alias_or_jid) THEN alias_or_jid
        ELSE Or(EnvJid(alias_or_jid), alias_or_jid)

resolve(registry, alias_or_jid) ==
    LET snapshot == registry_snapshot(registry)
    IN  IF HasAt(alias_or_jid) THEN alias_or_jid
        ELSE IF alias_or_jid \in DOMAIN snapshot THEN snapshot[alias_or_jid].jid
        ELSE Or(EnvJid(alias_or_jid), alias_or_jid)

_score_text_overlap(prompt, persona_texts) ==
    LET a == tok(prompt)
        b == UNION {tok(t) : t \in persona_texts}
    IN  Cardinality(a \cap b)

\* variant: sorts ties by descending alias
choose_agent_by_character_m(registry, self, prompt, include_self, allowed_given, allowed) ==
    LET snapshot == registry_snapshot(registry)
        my_alias == alias(self)
        candidates ==
            { a \in DOMAIN snapshot :
                /\ ~(~include_self /\ a = my_alias)
                /\ ~((allowed_given /\ allowed # {}) /\ a \notin allowed) }
        score(a) == _score_text_overlap(prompt,
                        {snapshot[a].character, snapshot[a].class})
        \* scored.sort(key=lambda t: (-t[0], t[1])); scored[0][1]
        first == CHOOSE a \in candidates : \A b \in candidates :
                    \/ score(a) > score(b)
                    \/ score(a) = score(b) /\ AliasRank(a) >= AliasRank(b)
    IN  IF DOMAIN snapshot = {} THEN None
        ELSE IF candidates = {} THEN None
        ELSE first

\* pick_agent cannot be imported from common/llm.py (it defines none), so
\* base.py sets pick_agent = None and only the heuristic runs
choose_agent_by_character(registry, self, prompt, include_self, allowed_given, allowed) ==
    LET snapshot == registry_snapshot(registry)
        my_alias == alias(self)
        candidates ==
            { a \in DOMAIN snapshot :
                /\ ~(~include_self /\ a = my_alias)
                /\ ~((allowed_given /\ allowed # {}) /\ a \notin allowed) }
        score(a) == _score_text_overlap(prompt,
                        {snapshot[a].character, snapshot[a].class})
        \* scored.sort(key=lambda t: (-t[0], t[1])); scored[0][1]
        first == CHOOSE a \in candidates : \A b \in candidates :
                    \/ score(a) > score(b)
                    \/ score(a) = score(b) /\ AliasRank(a) <= AliasRank(b)
    IN  IF DOMAIN snapshot = {} THEN None
        ELSE IF candidates = {} THEN None
        ELSE first

\* the descriptor setup() registers
SetupInfo(self) ==
    [alias |-> alias(self), jid |-> self, class |-> "BaseACLAgent",
     character |-> _env_character_for(alias(self)),
     role |-> Or(_env_role_for(alias(self)), "generic")]

-----------------------------------------------------------------------------
(* common/base.py: handle_acl *)

Send(to_jid, acl) == [to |-> to_jid, acl |-> acl]

\* what one run of role logic does: the send_acl calls in order, the
\* Pending-Reply Map afterwards, and where the coroutine is left
Did(sends, pending, at) == [sends |-> sends, pending |-> pending, at |-> at]

\* variant: forwards the REQUEST without remembering the initiator
coordinator_on_request_m(registry, self, pending, acl, sender_jid) ==
    LET agree == make_reply(acl, "AGREE", {<<"text", "przyj~to do realizacji">>},
                            None, None, None, None, FALSE)
        user_text == Or(PayloadGet(acl.payload, "text"),
                        Or(PayloadGet(acl.payload, "user_text"), ""))
        target_alias == Or(choose_agent_by_character(registry, self,
                               Or(user_text, DefaultNeed), FALSE, FALSE, {}),
                           "provider")
        target_jid == resolve(registry, target_alias)
        down_req == make_reply(acl, "REQUEST",
                               IF acl.payload = {} THEN {<<"text", user_text>>}
                               ELSE acl.payload,
                               None, None, None, None, FALSE)
    IN  Did(<<Send(sender_jid, agree), Send(target_jid, down_req)>>,
            pending, "idle")

\* role "coordinator", perf == "REQUEST"
coordinator_on_request(registry, self, pending, acl, sender_jid) ==
    LET cid == acl.conversation_id
        pending1 == IF cid \in {None, ""} THEN pending
                    ELSE DictSet(pending, cid, sender_jid)
        agree == make_reply(acl, "AGREE", {<<"text", "przyj~to do realizacji">>},
                            None, None, None, None, FALSE)
        user_text == Or(PayloadGet(acl.payload, "text"),
                        Or(PayloadGet(acl.payload, "user_text"), ""))
        target_alias == Or(choose_agent_by_character(registry, self,
                               Or(user_text, DefaultNeed), FALSE, FALSE, {}),
                           "provider")
        target_jid == resolve(registry, target_alias)
        down_req == make_reply(acl, "REQUEST",
                               IF acl.payload = {} THEN {<<"text", user_text>>}
                               ELSE acl.payload,
                               None, None, None, None, FALSE)
    IN  Did(<<Send(sender_jid, agree), Send(target_jid, down_req)>>,
            pending1, "idle")

\* role "coordinator", perf in ("INFORM", "FAILURE", "REFUSE")
coordinator_on_terminal(self, pending, acl, sender_jid) ==
    LET cid == acl.conversation_id
        reply_to == Or(DictGet(pending, cid), sender_jid)
        fwd == make_reply(acl, acl.performative, acl.payload,
                          None, None, None, None, FALSE)
    IN  Did(<<Send(reply_to, fwd)>>, DictPop(pending, cid), "idle")

\* role "provider_simple", up to asyncio.sleep(0.5)
provider_simple_agree(acl, sender_jid) ==
    Send(sender_jid, make_reply(acl, "AGREE", {<<"text", "ok, realizuj~">>},
                                None, None, None, None, FALSE))

\* role "provider_simple", after asyncio.sleep(0.5)
provider_simple_inform(acl, sender_jid) ==
    LET txt == IF PayloadGet(acl.payload, "text") \in {None, ""}
               THEN "zam~wienie zrealizowane" ELSE "zrealizowano: <text>"
    IN  Send(sender_jid, make_reply(acl, "INFORM", {<<"text", txt>>},
                                    None, None, None, None, FALSE))

\* variant: delegation is tried before role logic
handle_acl_ai_first(registry, self, role, auto_ai, pending, acl, sender_jid) ==
    LET perf == Upper(Or(acl.performative, ""))
    IN  IF auto_ai
        THEN Did(<<>>, pending, "ai_call")
        ELSE IF role = "coordinator"
        THEN IF perf = "REQUEST"
             THEN coordinator_on_request(registry, self, pending, acl, sender_jid)
             ELSE IF perf \in {"INFORM", "FAILURE", "REFUSE"}
             THEN coordinator_on_terminal(self, pending, acl, sender_jid)
             ELSE Did(<<>>, pending, "idle")
        ELSE IF role = "provider_simple"
        THEN IF perf # "REQUEST" THEN Did(<<>>, pending, "idle")
             ELSE Did(<<provider_simple_agree(acl, sender_jid)>>, pending, "sleep")
        ELSE Did(<<>>, pending, "idle")

\* variant: the coordinator passes an AGREE on like a terminal envelope
handle_acl_m(registry, self, role, auto_ai, pending, acl, sender_jid) ==
    LET perf == Upper(Or(acl.performative, ""))
    IN  IF role = "coordinator"
        THEN IF perf = "REQUEST"
             THEN coordinator_on_request(registry, self, pending, acl, sender_jid)
             ELSE IF perf \in {"INFORM", "FAILURE", "REFUSE"}
             THEN coordinator_on_terminal(self, pending, acl, sender_jid)
             ELSE IF perf = "AGREE"
             THEN Did(<<Send(Or(DictGet(pending, acl.conversation_id), sender_jid),
                             make_reply(acl, "AGREE", acl.payload,
                                        None, None, None, None, FALSE))>>,
                      pending, "idle")
             ELSE Did(<<>>, pending, "idle")
        ELSE IF role = "provider_simple"
        THEN IF perf # "REQUEST" THEN Did(<<>>, pending, "idle")
             ELSE Did(<<provider_simple_agree(acl, sender_jid)>>, pending, "sleep")
        ELSE IF auto_ai
        THEN Did(<<>>, pending, "ai_call")
        ELSE Did(<<>>, pending, "idle")

handle_acl(registry, self, role, auto_ai, pending, acl, sender_jid) ==
    LET perf == Upper(Or(acl.performative, ""))
    IN  IF role = "coordinator"
        THEN IF perf = "REQUEST"
             THEN coordinator_on_request(registry, self, pending, acl, sender_jid)
             ELSE IF perf \in {"INFORM", "FAILURE", "REFUSE"}
             THEN coordinator_on_terminal(self, pending, acl, sender_jid)
             ELSE Did(<<>>, pending, "idle")
        ELSE IF role = "provider_simple"
        THEN IF perf # "REQUEST" THEN Did(<<>>, pending, "idle")
             ELSE Did(<<provider_simple_agree(acl, sender_jid)>>, pending, "sleep")
        ELSE IF auto_ai
        THEN Did(<<>>, pending, "ai_call")
        ELSE Did(<<>>, pending, "idle")

\* after `await ai_respond_to_acl(...)`: the reply goes to the sender, an
\* exception is logged by the enclosing try and nothing is sent
handle_acl_after_ai(acl, sender_jid, response) ==
    LET reply_acl == ai_respond_to_acl(acl, response)
    IN  IF Raised(reply_acl) THEN <<>> ELSE <<Send(sender_jid, reply_acl)>>

\* send_acl for each call in turn: the messages handed to _SendOnce
send_acl(self, sends) ==
    [i \in 1..Len(sends) |-> to_spade(sends[i].acl, sends[i].to, self)]

-----------------------------------------------------------------------------
(* common/base.py: InboxBehaviour.run *)

\* str.lower() on the language tags that occur
Lower(s) == IF s = "JSON" THEN "json" ELSE s

\* body.lstrip().startswith("{") or body.lstrip().startswith("[")
is_json_like(msg) == msg.body_kind \in {"json", "badjson", "jsonlist"}

\* (acl.ontology or "").startswith("office.registry")
IsRegistryOntology(ontology) == ontology \in {"office.registry", "office.registry.v2"}

\* the INFORM payload {"agents": snapshot, "ts": ...}, one tuple per entry
RegistryPayload(registry) ==
    { <<"agents", a, registry[a].jid, registry[a].class, registry[a].character,
        registry[a].role>> : a \in DOMAIN registry } \cup {<<"ts", "<now>">>}

\* variant: answers a message it cannot parse with a REFUSE
InboxStep_m(registry, self, role, auto_ai, pending, msg, acl) ==
    LET lang == Lower(Or(Get(msg.metadata.language), ""))
        sender_jid == msg.sender
        action == Upper(Or(PayloadGet(acl.payload, "action"), ""))
        out == make_reply(acl, "INFORM", RegistryPayload(registry_snapshot(registry)),
                          None, None, None, None, FALSE)
    IN  IF ~(lang = "json" \/ is_json_like(msg))
        THEN [via |-> "not_json", did |-> Did(<<>>, pending, "idle")]
        ELSE IF Raised(acl)
        THEN [via |-> "parse_error",
              did |-> Did(<<Send(sender_jid,
                                 build_message("REFUSE", None, {}, "parse error"))>>,
                          pending, "idle")]
        ELSE IF /\ IsRegistryOntology(Or(acl.ontology, ""))
                /\ acl.performative = "REQUEST"
                /\ action \in {"LIST", "DISCOVER"}
        THEN [via |-> "registry",
              did |-> Did(<<Send(sender_jid, out)>>, pending, "idle")]
        ELSE [via |-> "handle_acl",
              did |-> handle_acl(registry, self, role, auto_ai, pending, acl,
                                 sender_jid)]

\* variant: only an agent without a role answers registry discovery
InboxStep_role_first(registry, self, role, auto_ai, pending, msg, acl) ==
    LET lang == Lower(Or(Get(msg.metadata.language), ""))
        sender_jid == msg.sender
        action == Upper(Or(PayloadGet(acl.payload, "action"), ""))
        out == make_reply(acl, "INFORM", RegistryPayload(registry_snapshot(registry)),
                          None, None, None, None, FALSE)
    IN  IF ~(lang = "json" \/ is_json_like(msg))
        THEN [via |-> "not_json", did |-> Did(<<>>, pending, "idle")]
        ELSE IF Raised(acl)
        THEN [via |-> "parse_error", did |-> Did(<<>>, pending, "idle")]
        ELSE IF /\ role = ""
                /\ IsRegistryOntology(Or(acl.ontology, ""))
                /\ acl.performative = "REQUEST"
                /\ action \in {"LIST", "DISCOVER"}
        THEN [via |-> "registry",
              did |-> Did(<<Send(sender_jid, out)>>, pending, "idle")]
        ELSE [via |-> "handle_acl",
              did |-> handle_acl(registry, self, role, auto_ai, pending, acl,
                                 sender_jid)]

\* how InboxBehaviour.run disposes of one received message; acl is
\* AclMessage.from_spade(msg), an envelope or the exception it raised
InboxStep(registry, self, role, auto_ai, pending, msg, acl) ==
    LET lang == Lower(Or(Get(msg.metadata.language), ""))
        sender_jid == msg.sender
        action == Upper(Or(PayloadGet(acl.payload, "action"), ""))
        out == make_reply(acl, "INFORM", RegistryPayload(registry_snapshot(registry)),
                          None, None, None, None, FALSE)
    IN  IF ~(lang = "json" \/ is_json_like(msg))
        THEN [via |-> "not_json", did |-> Did(<<>>, pending, "idle")]
        ELSE IF Raised(acl)
        THEN [via |-> "parse_error", did |-> Did(<<>>, pending, "idle")]
        ELSE IF /\ IsRegistryOntology(Or(acl.ontology, ""))
                /\ acl.performative = "REQUEST"
                /\ action \in {"LIST", "DISCOVER"}
        THEN [via |-> "registry",
              did |-> Did(<<Send(sender_jid, out)>>, pending, "idle")]
        ELSE [via |-> "handle_acl",
              did |-> handle_acl(registry, self, role, auto_ai, pending, acl,
                                 sender_jid)]

-----------------------------------------------------------------------------
(* What the peers outside the model send *)

MaxInjectAi == 2    \* messages the peers send to a delegating agent
MaxInjectFair == 1  \* messages the peers send in a run checked for progress
MaxInjectBakery == 2 \* messages the peers send to the bakery provider
MaxClock == 30       \* the clock stops counting at this many seconds
TickStep == 5        \* seconds the clock advances in one step
MaxListLen == 2      \* elements a caller lets a descriptor's list grow to
MaxRecords == 4     \* entries handed to record in one run
MaxInjectReg == 1   \* messages the peers send under the registry ontology
MaxInjectDeleg == 1 \* messages the peers send to agents of any role and setting
MaxInjectProvider == 2 \* messages the peers send to the simple provider

\* envelopes the two peers build for a coordinator
CoordEnvelopes(sender) ==
    IF sender = "human@xmpp"
    THEN { AclMessage(Obj("REQUEST", "c1", Absent, Absent, Absent, Absent,
                          Absent, Absent, "dict", pl)) :
             pl \in {{}, {<<"text", OrderText>>}} }
         \cup
         { AclMessage(Obj("REQUEST", "c2", Absent, Absent, Absent, Absent,
                          Absent, Absent, "dict", {<<"text", OrderText>>})) }
         \cup
         { AclMessage(Obj(p, "c1", Absent, Absent, Absent, Absent, Absent,
                          Absent, "dict", {<<"text", "ok">>})) :
             p \in {"AGREE", "INFORM", "CANCEL"} }
         \cup
         { AclMessage(Obj("REQUEST", "c1", Absent, "office.registry", Absent,
                          Absent, Absent, Absent, "dict", {<<"action", "LIST">>})) }
    ELSE { AclMessage(Obj(p, "c1", Absent, Absent, Absent, Absent, Absent,
                          Absent, "dict", {<<"text", OrderText>>})) :
             p \in {"REQUEST", "REFUSE"} }

\* envelopes a peer builds for a delegating agent
AiEnvelopes(sender) ==
    { AclMessage(Obj(p, "c1", Absent, Absent, Absent, Absent, Absent, Absent,
                     "dict", {<<"text", OrderText>>})) :
        p \in {"REQUEST", "AGREE", "INFORM", "CANCEL"} }

\* a classic message: metadata plus free text, language "text"
ClassicRequest(to, sender) ==
    Message(to, sender, "text", OrderText, NoObj,
            Metadata("REQUEST", "fipa-request", "c1", Absent, "office.demo",
                     "text", Absent))

\* envelopes a peer builds for the agent it writes to
PeerEnvelopes(to, sender) ==
    IF to \in AiAgents THEN AiEnvelopes(sender) ELSE CoordEnvelopes(sender)

\* a JSON body whose performative no envelope may carry
MalformedMessage(to, sender) ==
    Message(to, sender, "json", JsonText,
            Obj("PROPOSE", "c1", Absent, Absent, Absent, Absent, Absent,
                Absent, "dict", {<<"text", OrderText>>}),
            Metadata("PROPOSE", "fipa-request", "c1", Absent, "office.demo",
                     "json", Absent))

PeerMessages(to, sender) ==
    { to_spade(e, to, sender) : e \in PeerEnvelopes(to, sender) }
    \cup (IF sender = "human@xmpp"
          THEN {ClassicRequest(to, sender), MalformedMessage(to, sender)}
          ELSE {})

\* envelopes the two peers send under the registry ontology
RegistryEnvelopes(sender) ==
    IF sender = "human@xmpp"
    THEN { AclMessage(Obj(p, "c1", Absent, "office.registry", Absent, Absent,
                          Absent, Absent, "dict", {<<"action", "LIST">>})) :
             p \in {"REQUEST", "INFORM"} }
    ELSE { AclMessage(Obj("REQUEST", "c2", Absent, "office.registry.v2",
                          Absent, Absent, Absent, Absent, "dict",
                          {<<"action", "discover">>})) }

\* backend outcomes tried in the pipeline
AiResponses ==
    { [kind |-> "json_obj",
       obj |-> Obj(p, Absent, Absent, Absent, Absent, Absent, Absent, Absent,
                   k, {<<"text", "ok">>})] :
        p \in {"AGREE", "inform", "REFUSE", "PROPOSE", Absent, NonStr},
        k \in {"dict", "nondict"} }
    \cup { [kind |-> k, obj |-> NoObj] : k \in {"raise", "json_other", "non_json"} }

\* registries as setup() can leave them: any subset of the agents started
RegistryInputs ==
    { [al \in { alias(a) : a \in S } |->
          SetupInfo(CHOOSE a \in S : alias(a) = al)] : S \in SUBSET Agents }

\* calls of the router
RouterCallInputs ==
    { [fn |-> "choose_agent_by_character", registry |-> reg, self |-> a,
       prompt |-> t, include_self |-> inc, allowed_given |-> ag,
       allowed |-> al] :
        reg \in RegistryInputs, a \in {K, G},
        t \in {OrderText, DefaultNeed, "raport", "raport pieczywa",
                "rzeczowy pieczywa"},
        inc \in BOOLEAN, ag \in BOOLEAN, al \in {{}, {"provider", "explorer"}} }

\* calls of ensure_reply_by, with the instant now_utc() returns
ReplyByCallInputs ==
    { [fn |-> "ensure_reply_by", value |-> v, now_utc |-> t] :
        v \in {NoValue, BadValue} \cup { IsoValue(x) : x \in 0..MaxValueTicks },
        t \in 0..MaxNowTicks }

\* calls of the coordinator's handle_acl with a REQUEST, from a peer outside
\* the process or from an agent of the process
CoordinatorCallInputs ==
    { [fn |-> "handle_acl", registry |-> reg, self |-> K,
       acl |-> AclMessage(Obj("REQUEST", "c1", Absent, Absent, Absent, Absent,
                              Absent, Absent, "dict", pl)),
       sender_jid |-> s] :
        reg \in { r \in RegistryInputs : alias(K) \in DOMAIN r },
        pl \in {{}, {<<"text", OrderText>>}, {<<"text", "raport">>}},
        s \in (Agents \ {K}) \cup {"human@xmpp"} }

\* a registry in which a full address was registered as an alias
AddressAsAlias ==
    DictSet(EmptyDict, "human@xmpp",
            [alias |-> "human@xmpp", jid |-> "other@xmpp", class |-> "BaseACLAgent",
             character |-> DefaultCharacter, role |-> "generic"])

\* calls of resolve
ResolveCallInputs ==
    { [fn |-> "resolve", registry |-> reg, alias_or_jid |-> x] :
        reg \in RegistryInputs \cup {AddressAsAlias},
        x \in {"provider", "auditor", "archive", "reporter", K, "human@xmpp"} }

-----------------------------------------------------------------------------
(* State machine *)

NoCur == [busy |-> FALSE]
NoLast == [via |-> "none"]
NoCall == [fn |-> "none"]
NoSnapshot == [none |-> TRUE]   \* no snapshot has been returned yet
NoMsg == [to |-> None]      \* receive() returned None

InitAgents(auto_ai) ==
    /\ _REGISTRY = EmptyDict
    /\ started = [a \in Agents |-> FALSE]
    /\ _role = [a \in Agents |-> ""]
    /\ _auto_ai = [a \in Agents |-> auto_ai]
    /\ _pending = [a \in Agents |-> EmptyDict]
    /\ _last_sender_by_cid = [a \in Agents |-> EmptyDict]
    /\ inbox = [a \in Agents |-> <<>>]
    /\ sendq = [a \in Agents |-> <<>>]
    /\ pc = [a \in Agents |-> "idle"]
    /\ cur = [a \in Agents |-> NoCur]
    /\ injected = 0
    /\ llm_calls = 0
    /\ awaiting = {}
    /\ last = NoLast
    /\ _STORE = EmptyDict
    /\ recorded = EmptyDict
    /\ now = 0
    /\ heap = <<>>
    /\ held = NoSnapshot
    /\ sink = <<>>
    /\ outdir = <<>>
    /\ _last_mode_by_cid = EmptyDict
    /\ arrived = <<>>
    /\ _character = [a \in DOMAIN started |->
          IF started[a] THEN _env_character_for(alias(a)) ELSE ""]
    /\ upd_tasks = <<>>

\* AGENT_AUTO_AI is unset: the default
Init ==
    /\ call = NoCall
    /\ ret = NotCalled
    /\ InitAgents(FALSE)

\* AGENT_AUTO_AI is set to either value
InitAi ==
    /\ call = NoCall
    /\ ret = NotCalled
    /\ \E b \in BOOLEAN : InitAgents(b)

InitPure ==
    /\ call \in CallInputs \cup RouterCallInputs \cup ResolveCallInputs
                \cup ReplyByCallInputs \cup CoordinatorCallInputs
    /\ ret = NotCalled
    /\ InitAgents(FALSE)

agentVars == <<_REGISTRY, started, _role, _auto_ai, _pending,
               _last_sender_by_cid, inbox, sendq, pc, cur, injected,
               llm_calls, awaiting, last, _STORE, recorded, now, heap, held,
                   sink, outdir, _last_mode_by_cid, arrived,
                   _character, upd_tasks>>

\* BaseACLAgent.setup
Setup(a) ==
    /\ ~started[a]
    /\ started' = [started EXCEPT ![a] = TRUE]
    /\ _role' = [_role EXCEPT ![a] = _env_role_for(alias(a))]
    /\ _character' = [_character EXCEPT ![a] = _env_character_for(alias(a))]
    /\ _REGISTRY' = _register(_REGISTRY, alias(a), SetupInfo(a))
    /\ UNCHANGED <<call, ret, _auto_ai, _pending, _last_sender_by_cid, inbox,
                   sendq, pc, cur, injected, llm_calls, awaiting,
                   last, _STORE, recorded, now, heap, held,
                   sink, outdir, _last_mode_by_cid, arrived, upd_tasks>>

\* a peer's message arrives at a started agent
Inject(bound, a) ==
    /\ started[a]
    /\ injected < bound
    /\ Len(inbox[a]) < MaxInbox
    /\ \E p \in Peers : \E m \in PeerMessages(a, p) :
          inbox' = [inbox EXCEPT ![a] = Append(@, m)]
    /\ injected' = injected + 1
    /\ UNCHANGED <<call, ret, _REGISTRY, started, _role, _auto_ai, _pending,
                   _last_sender_by_cid, sendq, pc, cur, llm_calls, awaiting,
                   last, _STORE, recorded, now, heap, held,
                   sink, outdir, _last_mode_by_cid, arrived,
                   _character, upd_tasks>>

InjectCoord == Inject(MaxInject, K)
InjectAi == Inject(MaxInjectAi, G)
InjectFair == Inject(MaxInjectFair, K)

\* a peer writes to any started agent under the registry ontology
InjectRegistry ==
    /\ injected < MaxInjectReg
    /\ \E a \in Agents : \E p \in Peers : \E e \in RegistryEnvelopes(p) :
          /\ started[a]
          /\ Len(inbox[a]) < MaxInbox
          /\ inbox' = [inbox EXCEPT ![a] = Append(@, to_spade(e, a, p))]
    /\ injected' = injected + 1
    /\ UNCHANGED <<call, ret, _REGISTRY, started, _role, _auto_ai, _pending,
                   _last_sender_by_cid, sendq, pc, cur, llm_calls, awaiting,
                   last, _STORE, recorded, now, heap, held,
                   sink, outdir, _last_mode_by_cid, arrived,
                   _character, upd_tasks>>

\* the OUT entries send_acl hands to record, one per send
OutEntries(sends) ==
    [i \in 1..Len(sends) |-> Entry("OUT", sends[i].acl, sends[i].to)]

\* the record kept of a completed handling
Handled(a, via, acl, sender_jid, sends, registry, pending_before, initiators, response, calls) ==
    [agent |-> a, via |-> via, acl |-> acl, sender |-> sender_jid,
     sends |-> sends, registry |-> registry, pending_before |-> pending_before,
     initiators |-> initiators, response |-> response, calls |-> calls]

\* the initiators whose REQUEST for cid is still unanswered
Initiators(cid) == { w[2] : w \in { x \in awaiting : x[1] = cid } }

NoResponse == [kind |-> "none", obj |-> NoObj]

\* variant: run() is entered again while the previous run() is suspended
InboxFree_m(a) == TRUE

\* the cyclic behaviour calls run() again only after the previous run(),
\* with the handle_acl it awaits, has returned
InboxFree(a) == pc[a] = "idle"

\* InboxBehaviour.run with a message received
InboxRun(a) ==
    /\ started[a]
    /\ InboxFree(a)
    /\ inbox[a] # <<>>
    /\ \E msg \in {Head(inbox[a])} :
       \E acl \in {from_spade(msg)} :
       \E step \in {InboxStep(_REGISTRY, a, _role[a], _auto_ai[a], _pending[a],
                              msg, acl)} :
       \E did \in {step.did} :
       LET parsed == step.via \in {"registry", "handle_acl"}
       IN  /\ inbox' = [inbox EXCEPT ![a] = Tail(@)]
           /\ _last_sender_by_cid' =
                 IF parsed /\ acl.conversation_id \notin {None, ""}
                 THEN [_last_sender_by_cid EXCEPT
                         ![a] = DictSet(@, acl.conversation_id, msg.sender)]
                 ELSE _last_sender_by_cid
           /\ _pending' = [_pending EXCEPT ![a] = did.pending]
           /\ sendq' = [sendq EXCEPT ![a] = @ \o send_acl(a, did.sends)]
           /\ pc' = [pc EXCEPT ![a] = did.at]
           /\ IF did.at = "idle"
              THEN /\ last' = Handled(a, step.via, acl, msg.sender, did.sends,
                                      _REGISTRY, _pending[a],
                                      IF parsed
                                      THEN Initiators(acl.conversation_id)
                                      ELSE {},
                                      NoResponse, 0)
                   /\ UNCHANGED <<cur, llm_calls, now, heap, held>>
              ELSE /\ cur' = [cur EXCEPT ![a] =
                                [busy |-> TRUE, acl |-> acl, sender |-> msg.sender,
                                 sends |-> did.sends, registry |-> _REGISTRY,
                                 pending_before |-> _pending[a]]]
                   /\ llm_calls' = IF did.at = "ai_call" THEN 1 ELSE 0
                   /\ UNCHANGED last
           /\ awaiting' =
                 IF step.via = "handle_acl" /\ _role[a] = "coordinator"
                 THEN IF acl.performative = "REQUEST"
                      THEN awaiting \cup {<<acl.conversation_id, msg.sender>>}
                      ELSE IF acl.performative \in {"INFORM", "FAILURE", "REFUSE"}
                      THEN { x \in awaiting : x[1] # acl.conversation_id }
                      ELSE awaiting
                 ELSE awaiting
           /\ _STORE' = _rec_all(_STORE, a,
                 (IF parsed THEN <<Entry("IN", acl, msg.sender)>> ELSE <<>>)
                 \o (IF did.at = "ai_call"
                     THEN <<Entry("IN", acl, msg.sender)>> ELSE <<>>)
                 \o OutEntries(did.sends))
    /\ UNCHANGED <<call, ret, _REGISTRY, started, _role, _auto_ai, injected,
                   recorded, now, heap, held,
                   sink, outdir, _last_mode_by_cid, arrived,
                   _character, upd_tasks>>

\* handle_acl of a provider_simple resumes after asyncio.sleep(0.5)
Wake(a) ==
    /\ pc[a] = "sleep"
    /\ LET inform == provider_simple_inform(cur[a].acl, cur[a].sender)
       IN  /\ sendq' = [sendq EXCEPT ![a] = @ \o send_acl(a, <<inform>>)]
           /\ last' = Handled(a, "handle_acl", cur[a].acl, cur[a].sender,
                              Append(cur[a].sends, inform), cur[a].registry,
                              cur[a].pending_before, {}, NoResponse, 0)
    /\ pc' = [pc EXCEPT ![a] = "idle"]
    /\ cur' = [cur EXCEPT ![a] = NoCur]
    /\ _STORE' = _rec_all(_STORE, a,
                          OutEntries(<<provider_simple_inform(cur[a].acl,
                                                              cur[a].sender)>>))
    /\ UNCHANGED <<call, ret, _REGISTRY, started, _role, _auto_ai, _pending,
                   _last_sender_by_cid, inbox, injected, llm_calls, awaiting,
                   recorded, now, heap, held,
                   sink, outdir, _last_mode_by_cid, arrived,
                   _character, upd_tasks>>

\* handle_acl resumes when the backend call returns or raises
AiReturn(a) ==
    /\ pc[a] = "ai_call"
    /\ \E response \in AiResponses :
         LET sends == handle_acl_after_ai(cur[a].acl, cur[a].sender, response)
         IN  /\ sendq' = [sendq EXCEPT ![a] = @ \o send_acl(a, sends)]
             /\ last' = Handled(a, "handle_acl", cur[a].acl, cur[a].sender,
                                sends, cur[a].registry, cur[a].pending_before,
                                {}, response, llm_calls)
             /\ _STORE' = _rec_all(_STORE, a, OutEntries(sends))
    /\ pc' = [pc EXCEPT ![a] = "idle"]
    /\ cur' = [cur EXCEPT ![a] = NoCur]
    /\ llm_calls' = 0
    /\ UNCHANGED <<call, ret, _REGISTRY, started, _role, _auto_ai, _pending,
                   _last_sender_by_cid, inbox, injected, awaiting, recorded,
                   now, heap, held,
                   sink, outdir, _last_mode_by_cid, arrived,
                   _character, upd_tasks>>

\* variant: the send behaviour added last runs first
Dispatch_m(a) ==
    /\ sendq[a] # <<>>
    /\ LET m == sendq[a][Len(sendq[a])]
       IN  /\ sendq' = [sendq EXCEPT ![a] = SubSeq(@, 1, Len(@) - 1)]
           /\ IF m.to \in Agents /\ m.to # a /\ started[m.to]
                 /\ Len(inbox[m.to]) < MaxInbox
              THEN inbox' = [inbox EXCEPT ![m.to] = Append(@, m)]
              ELSE inbox' = inbox
    /\ UNCHANGED <<call, ret, _REGISTRY, started, _role, _auto_ai, _pending,
                   _last_sender_by_cid, pc, cur, injected, llm_calls, awaiting,
                   last, _STORE, recorded, now, heap, held, sink, outdir,
                   _last_mode_by_cid, arrived, _character, upd_tasks>>

\* _SendOnce.run: the transport delivers to a started agent with room in
\* its inbox; anything else leaves the model
Dispatch(a) ==
    /\ sendq[a] # <<>>
    /\ LET m == Head(sendq[a])
       IN  /\ sendq' = [sendq EXCEPT ![a] = Tail(@)]
           /\ IF m.to \in Agents /\ m.to # a /\ started[m.to]
                 /\ Len(inbox[m.to]) < MaxInbox
              THEN inbox' = [inbox EXCEPT ![m.to] = Append(@, m)]
              ELSE inbox' = inbox
    /\ UNCHANGED <<call, ret, _REGISTRY, started, _role, _auto_ai, _pending,
                   _last_sender_by_cid, pc, cur, injected, llm_calls, awaiting,
                   last, _STORE, recorded, now, heap, held,
                   sink, outdir, _last_mode_by_cid, arrived,
                   _character, upd_tasks>>

Next ==
    \/ \E a \in CoordAgents : Setup(a)
    \/ InjectCoord
    \/ \E a \in CoordAgents : InboxRun(a)
    \/ \E a \in CoordAgents : Wake(a)
    \/ \E a \in CoordAgents : Dispatch(a)

Spec == Init /\ [][Next]_vars

NextAi ==
    \/ \E a \in AiAgents : Setup(a)
    \/ InjectAi
    \/ \E a \in AiAgents : InboxRun(a)
    \/ \E a \in AiAgents : AiReturn(a)
    \/ \E a \in AiAgents : Dispatch(a)

SpecAi == InitAi /\ [][NextAi]_vars

\* agents of every role and delegation setting, asked about the registry
NextRegistry ==
    \/ \E a \in Agents : Setup(a)
    \/ InjectRegistry
    \/ \E a \in Agents : InboxRun(a)
    \/ \E a \in Agents : AiReturn(a)
    \/ \E a \in Agents : Dispatch(a)

SpecRegistry == InitAi /\ [][NextRegistry]_vars

\* the coordinator, the provider and an agent without a role
DelegAgents == {K, P, G}

\* a peer writes to any started agent, under any ontology
InjectDelegation ==
    /\ injected < MaxInjectDeleg
    /\ \E a \in DelegAgents : \E p \in Peers :
       \E m \in { to_spade(e, a, p) :
                    e \in AiEnvelopes(p) \cup RegistryEnvelopes(p) } :
          /\ started[a]
          /\ Len(inbox[a]) < MaxInbox
          /\ inbox' = [inbox EXCEPT ![a] = Append(@, m)]
    /\ injected' = injected + 1
    /\ UNCHANGED <<call, ret, _REGISTRY, started, _role, _auto_ai, _pending,
                   _last_sender_by_cid, sendq, pc, cur, llm_calls, awaiting,
                   last, _STORE, recorded, now, heap, held,
                   sink, outdir, _last_mode_by_cid, arrived,
                   _character, upd_tasks>>

\* agents of every role, with AGENT_AUTO_AI set to either value
NextDelegation ==
    \/ \E a \in DelegAgents : Setup(a)
    \/ InjectDelegation
    \/ \E a \in DelegAgents : InboxRun(a)
    \/ \E a \in DelegAgents : Wake(a)
    \/ \E a \in DelegAgents : AiReturn(a)
    \/ \E a \in DelegAgents : Dispatch(a)

SpecDelegation == InitAi /\ [][NextDelegation]_vars

\* the simple provider alone, written to by the peers
InjectProvider == Inject(MaxInjectProvider, P)

NextProvider ==
    \/ Setup(P)
    \/ InjectProvider
    \/ InboxRun(P)
    \/ Wake(P)
    \/ Dispatch(P)

SpecProvider == Init /\ [][NextProvider]_vars

\* asyncio.sleep(0.5) returns: the suspended handler is resumed
FairProvider == SpecProvider /\ WF_vars(Wake(P))

\* the inbox loop, the sleeping handler and the send behaviours of every
\* agent keep being scheduled; the peers owe nothing
NextFair ==
    \/ \E a \in CoordAgents : Setup(a)
    \/ InjectFair
    \/ \E a \in CoordAgents : InboxRun(a)
    \/ \E a \in CoordAgents : Wake(a)
    \/ \E a \in CoordAgents : Dispatch(a)

FairSpec ==
    /\ Init /\ [][NextFair]_vars
    /\ \A a \in CoordAgents :
          WF_vars(InboxRun(a)) /\ WF_vars(Wake(a)) /\ WF_vars(Dispatch(a))

-----------------------------------------------------------------------------
(* common/fipa.py: helpers over classic messages *)

ACL_PROTOCOL_REQUEST == "fipa-request"

\* (msg.metadata or {}).get("performative", "").upper()
perf(msg) == Upper(SetDefault(msg.metadata.performative, ""))

\* md.get("conversation_id") or md.get("conversation-id", "")
conv_id(msg) ==
    Or(Get(msg.metadata.conversation_id),
       SetDefault(msg.metadata.conversation_legacy, ""))

\* acl_msg(to=..., performative=..., content=..., reply_by=..., conv_id=...)
acl_msg(to, sender, performative, content, conv, reply_by) ==
    Message(to, sender, "text", content, NoObj,
            Metadata(Upper(performative), ACL_PROTOCOL_REQUEST, conv, Absent,
                     "office.demo", "text",
                     IF reply_by \in {None, ""} THEN Absent ELSE reply_by))

is_fipa_request(msg) ==
    /\ Get(msg.metadata.protocol) = ACL_PROTOCOL_REQUEST
    /\ perf(msg) \in ALLOWED_PERFORMATIVES

-----------------------------------------------------------------------------
(* agents/provider_bakery.py *)

Bakery == "bakery@xmpp"

item_keyword == "bu~ek"     \* PROVIDER_ITEM is not set
default_qty == 6            \* PROVIDER_DEFAULT_QTY is not set

PlainOrder == "poprosz~ bu~ek"
OtherOrder == "poprosz~ 2 chleby"
TwoNumbers == "12 bu~ek i 3 chleby"
RefuseText == "nie obs~uguj~ tego zapytania"

\* keyword in s, for one string of the message
Contains(s, keyword) ==
    keyword = item_keyword /\ s \in {OrderText, PlainOrder, TwoNumbers}

\* re.search(r"(\d+)", s) on one string: the set holding int(m.group(1)),
\* empty when there is no match
search(s) ==
    CASE s = OrderText  -> {6}
      [] s = OtherOrder -> {2}
      [] s = TwoNumbers -> {12}
      [] s = "c1"       -> {1}
      [] s = "c2"       -> {2}
      [] OTHER          -> {}

\* insertion order of the payload keys that occur
PayloadKeys == <<"text", "note">>

\* msg.body or "", as the strings it is made of from left to right: the text
\* of a classic message, or the values of json.dumps(model_dump()) in field
\* order (lines 49-54 of common/acl.py)
Body(msg) ==
    IF msg.body_kind = "text" THEN <<msg.body_text>>
    ELSE IF msg.body_kind = "json"
    THEN LET o == msg.body_obj
         IN  <<o.performative, o.conversation_id, o.protocol, o.ontology,
               o.language, o.reply_by, o.sender, o.receiver>>
             \o [i \in 1..Len(PayloadKeys) |->
                    IF PayloadGet(o.payload, PayloadKeys[i]) = None THEN Absent
                    ELSE PayloadGet(o.payload, PayloadKeys[i])]
    ELSE <<>>

\* self.agent.item_keyword in body
InBody(keyword, body) == \E i \in 1..Len(body) : Contains(body[i], keyword)

\* re.search(r"(\d+)", body): the leftmost match
RECURSIVE SearchBody(_)
SearchBody(body) ==
    IF body = <<>> THEN {}
    ELSE IF search(Head(body)) # {} THEN search(Head(body))
    ELSE SearchBody(Tail(body))

\* f"zam~wienie zrealizowane: {qty} {item_keyword} ~wie~ych"
InformBody(qty, keyword) ==
    [fmt |-> "zam~wienie zrealizowane: {qty} {item_keyword} ~wie~ych",
     qty |-> qty, item_keyword |-> keyword]

\* msg.make_reply() followed by the five set_metadata calls
Reply(msg, performative) ==
    LET md == msg.metadata
    IN  [msg EXCEPT !.to = msg.sender, !.sender = msg.to,
                    !.metadata =
                        [md EXCEPT !.performative = performative,
                                   !.conversation_id =
                                       SetDefault(md.conversation_id, conv_id(msg)),
                                   !.protocol = SetDefault(@, "fipa-request"),
                                   !.ontology = SetDefault(@, "office.demo"),
                                   !.language = SetDefault(@, "text")]]

\* reply.body = text
WithBody(m, text) ==
    [m EXCEPT !.body_kind = "text", !.body_text = text, !.body_obj = NoObj]

\* FipaResponder.run up to asyncio.sleep: the messages sent in order and
\* where the coroutine is left
FipaResponder(msg) ==
    IF ~is_fipa_request(msg) \/ perf(msg) # "REQUEST"
    THEN [sends |-> <<>>, at |-> "done"]
    ELSE IF ~InBody(item_keyword, Body(msg))
    THEN [sends |-> <<WithBody(Reply(msg, "REFUSE"), RefuseText)>>, at |-> "done"]
    ELSE [sends |-> <<Reply(msg, "AGREE")>>, at |-> "sleep"]

\* FipaResponder.run after asyncio.sleep: the INFORM
FipaResponder_inform(msg) ==
    LET m   == SearchBody(Body(msg))
        qty == IF m # {} THEN CHOOSE n \in m : TRUE ELSE default_qty
    IN  WithBody(Reply(msg, "INFORM"), InformBody(qty, item_keyword))

\* Template(metadata={"protocol": "fipa-request"})
FipaTemplate(msg) == msg.metadata.protocol = "fipa-request"

ClassicMessage(sender, performative, protocol, cid, legacy, text) ==
    Message(Bakery, sender, "text", text, NoObj,
            Metadata(performative, protocol, cid, legacy, "office.demo", "text", Absent))

\* what the two peers send to the bakery provider: classic text messages
\* and JSON envelopes
BakeryMessages(sender) ==
    IF sender = "human@xmpp"
    THEN { ClassicMessage(sender, "REQUEST", "fipa-request", "c1", Absent, t) :
             t \in {OrderText, PlainOrder, OtherOrder, TwoNumbers} }
         \cup
         { ClassicMessage(sender, "request", "fipa-request", Absent, "c2", OrderText),
           ClassicMessage(sender, "INFORM", "fipa-request", "c1", Absent, OrderText),
           ClassicMessage(sender, "REQUEST", "fipa-query", "c1", Absent, OrderText) }
         \cup
         { to_spade(build_message("REQUEST", cid, pl, None), Bakery, sender) :
             cid \in {"c1", "zam"},
             pl \in { {<<"text", OrderText>>}, {<<"text", OtherOrder>>},
                      {<<"text", "chleb">>, <<"note", PlainOrder>>} } }
    ELSE { ClassicMessage(sender, "REQUEST", "fipa-request", "c2", Absent, OrderText),
           to_spade(build_message("REQUEST", "zam", {<<"text", PlainOrder>>}, None),
                    Bakery, sender) }

InitBakery ==
    /\ call = NoCall
    /\ ret = NotCalled
    /\ _REGISTRY = EmptyDict
    /\ started = [a \in {Bakery} |-> TRUE]
    /\ _role = [a \in {Bakery} |-> ""]
    /\ _auto_ai = [a \in {Bakery} |-> FALSE]
    /\ _pending = [a \in {Bakery} |-> EmptyDict]
    /\ _last_sender_by_cid = [a \in {Bakery} |-> EmptyDict]
    /\ inbox = [a \in {Bakery} |-> <<>>]
    /\ sendq = [a \in {Bakery} |-> <<>>]
    /\ pc = [a \in {Bakery} |-> "idle"]
    /\ cur = [a \in {Bakery} |-> NoCur]
    /\ injected = 0
    /\ llm_calls = 0
    /\ awaiting = {}
    /\ last = NoLast
    /\ _STORE = EmptyDict
    /\ recorded = EmptyDict
    /\ now = 0
    /\ heap = <<>>
    /\ held = NoSnapshot
    /\ sink = <<>>
    /\ outdir = <<>>
    /\ _last_mode_by_cid = EmptyDict
    /\ arrived = <<>>
    /\ _character = [a \in DOMAIN started |->
          IF started[a] THEN _env_character_for(alias(a)) ELSE ""]
    /\ upd_tasks = <<>>

\* a peer's message arrives; the behaviour's mailbox takes it when the
\* template matches
InjectBakery ==
    /\ injected < MaxInjectBakery
    /\ Len(inbox[Bakery]) < MaxInbox
    /\ \E p \in Peers : \E m \in BakeryMessages(p) :
          inbox' = IF FipaTemplate(m)
                   THEN [inbox EXCEPT ![Bakery] = Append(@, m)]
                   ELSE inbox
    /\ injected' = injected + 1
    /\ UNCHANGED <<call, ret, _REGISTRY, started, _role, _auto_ai, _pending,
                   _last_sender_by_cid, sendq, pc, cur, llm_calls, awaiting,
                   last, _STORE, recorded, now, heap, held,
                   sink, outdir, _last_mode_by_cid, arrived,
                   _character, upd_tasks>>

\* one run of FipaResponder, up to the sleep when it agrees
FipaResponderRun ==
    /\ pc[Bakery] = "idle"
    /\ inbox[Bakery] # <<>>
    /\ \E msg \in {Head(inbox[Bakery])} : \E did \in {FipaResponder(msg)} :
          /\ inbox' = [inbox EXCEPT ![Bakery] = Tail(@)]
          /\ sendq' = [sendq EXCEPT ![Bakery] = @ \o did.sends]
          /\ pc' = [pc EXCEPT ![Bakery] = IF did.at = "sleep" THEN "sleep" ELSE "idle"]
          /\ cur' = [cur EXCEPT ![Bakery] =
                        IF did.at = "sleep" THEN [busy |-> TRUE, msg |-> msg]
                        ELSE NoCur]
          /\ last' = [via |-> "FipaResponder", msg |-> msg, sends |-> did.sends,
                      at |-> did.at]
    /\ UNCHANGED <<call, ret, _REGISTRY, started, _role, _auto_ai, _pending,
                   _last_sender_by_cid, injected, llm_calls, awaiting,
                   _STORE, recorded, now, heap, held,
                   sink, outdir, _last_mode_by_cid, arrived,
                   _character, upd_tasks>>

\* asyncio.sleep(self.agent.delay) is over: the INFORM goes out
FipaResponderWake ==
    /\ pc[Bakery] = "sleep"
    /\ \E inform \in {FipaResponder_inform(cur[Bakery].msg)} :
          /\ sendq' = [sendq EXCEPT ![Bakery] = Append(@, inform)]
          /\ last' = [via |-> "FipaResponder", msg |-> cur[Bakery].msg,
                      sends |-> <<Reply(cur[Bakery].msg, "AGREE"), inform>>,
                      at |-> "done"]
    /\ pc' = [pc EXCEPT ![Bakery] = "idle"]
    /\ cur' = [cur EXCEPT ![Bakery] = NoCur]
    /\ UNCHANGED <<call, ret, _REGISTRY, started, _role, _auto_ai, _pending,
                   _last_sender_by_cid, inbox, injected, llm_calls, awaiting,
                   _STORE, recorded, now, heap, held,
                   sink, outdir, _last_mode_by_cid, arrived,
                   _character, upd_tasks>>

NextBakery ==
    \/ InjectBakery
    \/ FipaResponderRun
    \/ FipaResponderWake
    \/ Dispatch(Bakery)

SpecBakery == InitBakery /\ [][NextBakery]_vars

-----------------------------------------------------------------------------
(* agents/reporter.py *)

Reporter == "reporter@xmpp"

MaxInjectReporter == 2  \* messages the peers send to the reporter

\* Template(): the template InboxBehaviour is added with
InboxTemplate(msg) == TRUE

\* Template(metadata={"language": "text"}): ClassicAuditSink's template
ClassicTemplate(msg) == msg.metadata.language = "text"

\* a message with metadata and a text body of the given kind
AuditNote(sender, body_kind, language) ==
    Message(Reporter, sender, body_kind, "AUDIT: wynik zam~wienia", NoObj,
            Metadata("INFORM", "fipa-request", "c1", Absent, "office.demo",
                     language, Absent))

\* what the peers send to the reporter: audit notes in free text, JSON
\* envelopes, and a registry discovery request
ReporterMessages(sender) ==
    IF sender = "human@xmpp"
    THEN { AuditNote(sender, "text", "text"),
           AuditNote(sender, "badjson", "text"),
           AuditNote(sender, "text", Absent) }
         \cup
         { to_spade(AclMessage(Obj("INFORM", "c1", Absent, Absent, l, Absent,
                                   Absent, Absent, "dict", {<<"text", "ok">>})),
                    Reporter, sender) : l \in {"json", "text"} }
    ELSE { AuditNote(sender, "text", "text"),
           MalformedMessage(Reporter, sender),
           to_spade(AclMessage(Obj("REQUEST", "c2", Absent, "office.registry",
                                   Absent, Absent, Absent, Absent, "dict",
                                   {<<"action", "LIST">>})),
                    Reporter, sender) }

InitReporter ==
    /\ call = NoCall
    /\ ret = NotCalled
    /\ _REGISTRY = EmptyDict
    /\ started = [a \in {Reporter} |-> TRUE]
    /\ _role = [a \in {Reporter} |-> ""]
    /\ _auto_ai = [a \in {Reporter} |-> FALSE]
    /\ _pending = [a \in {Reporter} |-> EmptyDict]
    /\ _last_sender_by_cid = [a \in {Reporter} |-> EmptyDict]
    /\ inbox = [a \in {Reporter} |-> <<>>]
    /\ sendq = [a \in {Reporter} |-> <<>>]
    /\ pc = [a \in {Reporter} |-> "idle"]
    /\ cur = [a \in {Reporter} |-> NoCur]
    /\ injected = 0
    /\ llm_calls = 0
    /\ awaiting = {}
    /\ last = NoLast
    /\ _STORE = EmptyDict
    /\ recorded = EmptyDict
    /\ now = 0
    /\ heap = <<>>
    /\ held = NoSnapshot
    /\ sink = <<>>
    /\ outdir = <<>>
    /\ _last_mode_by_cid = EmptyDict
    /\ arrived = <<>>
    /\ _character = [a \in DOMAIN started |->
          IF started[a] THEN _env_character_for(alias(a)) ELSE ""]
    /\ upd_tasks = <<>>

\* a peer's message arrives: it is queued for every behaviour whose
\* template matches it, numbered in order of arrival
InjectReporter ==
    /\ injected < MaxInjectReporter
    /\ Len(inbox[Reporter]) < MaxInbox
    /\ Len(sink) < MaxInbox
    /\ \E p \in Peers : \E m \in ReporterMessages(p) :
       \E e \in {[n |-> injected + 1, msg |-> m]} :
          /\ inbox' = IF InboxTemplate(m)
                      THEN [inbox EXCEPT ![Reporter] = Append(@, e)]
                      ELSE inbox
          /\ sink' = IF ClassicTemplate(m) THEN Append(sink, e) ELSE sink
    /\ injected' = injected + 1
    /\ UNCHANGED <<call, ret, _REGISTRY, started, _role, _auto_ai, _pending,
                   _last_sender_by_cid, sendq, pc, cur, llm_calls, awaiting,
                   last, _STORE, recorded, now, heap, held, outdir,
                   _last_mode_by_cid, arrived, _character, upd_tasks>>

\* the line one of the two paths appends to out/audit-<ts>-<cid>.json
AuditRecord(n, by, from, performative, protocol, conversation_id) ==
    [n |-> n, by |-> by, from |-> from, performative |-> performative,
     protocol |-> protocol, conversation_id |-> conversation_id]

\* ReporterAgent.handle_acl
ReporterHandleAcl(n, acl, sender) ==
    AuditRecord(n, "handle_acl", sender, acl.performative,
                Or(acl.protocol, "fipa-request"), acl.conversation_id)

\* InboxBehaviour.run of the reporter: its handle_acl writes the record
ReporterInboxRun ==
    /\ pc[Reporter] = "idle"
    /\ inbox[Reporter] # <<>>
    /\ \E e \in {Head(inbox[Reporter])} :
       \E acl \in {from_spade(e.msg)} :
       \E step \in {InboxStep(_REGISTRY, Reporter, "", FALSE, EmptyDict,
                              e.msg, acl)} :
       LET parsed == step.via \in {"registry", "handle_acl"}
           sends == IF step.via = "registry" THEN step.did.sends ELSE <<>>
       IN  /\ inbox' = [inbox EXCEPT ![Reporter] = Tail(@)]
           /\ _last_sender_by_cid' =
                 IF parsed /\ acl.conversation_id \notin {None, ""}
                 THEN [_last_sender_by_cid EXCEPT
                         ![Reporter] = DictSet(@, acl.conversation_id, e.msg.sender)]
                 ELSE _last_sender_by_cid
           /\ sendq' = [sendq EXCEPT ![Reporter] = @ \o send_acl(Reporter, sends)]
           /\ outdir' = IF step.via = "handle_acl"
                        THEN Append(outdir, ReporterHandleAcl(e.n, acl, e.msg.sender))
                        ELSE outdir
           /\ _STORE' = _rec_all(_STORE, Reporter,
                 (IF parsed THEN <<Entry("IN", acl, e.msg.sender)>> ELSE <<>>)
                 \o OutEntries(sends))
           /\ last' = [via |-> step.via, agent |-> Reporter, n |-> e.n]
    /\ UNCHANGED <<call, ret, _REGISTRY, started, _role, _auto_ai, _pending,
                   pc, cur, injected, llm_calls, awaiting, recorded, now,
                   heap, held, sink, _last_mode_by_cid, arrived,
                   _character, upd_tasks>>

\* ClassicAuditSink.run with a message received
ClassicAuditSinkRun ==
    /\ sink # <<>>
    /\ \E e \in {Head(sink)} :
          /\ sink' = Tail(sink)
          /\ outdir' = Append(outdir,
                 AuditRecord(e.n, "ClassicAuditSink", e.msg.sender, perf(e.msg),
                             Or(Get(e.msg.metadata.protocol), ""), conv_id(e.msg)))
          /\ last' = [via |-> "ClassicAuditSink", agent |-> Reporter, n |-> e.n]
    /\ UNCHANGED <<call, ret, _REGISTRY, started, _role, _auto_ai, _pending,
                   _last_sender_by_cid, inbox, sendq, pc, cur, injected,
                   llm_calls, awaiting, _STORE, recorded, now, heap, held,
                   _last_mode_by_cid, arrived, _character, upd_tasks>>

NextReporter ==
    \/ InjectReporter
    \/ ReporterInboxRun
    \/ ClassicAuditSinkRun
    \/ Dispatch(Reporter)

SpecReporter == InitReporter /\ [][NextReporter]_vars

-----------------------------------------------------------------------------
(* agents/human.py *)

HumanAgent == "human@xmpp"

HumanAgents == {HumanAgent, K, P}   \* the bridge and the agents writing to it
HumanCids == {"c1", "c2"}

MaxInjectHuman == 2  \* messages the agents send to the human bridge

\* the wire shape of a message: a JSON envelope or a classic SPADE message
Shape(msg) == IF msg.body_kind = "json" THEN "json" ELSE "classic"

\* what the agents send to the bridge in conversation cid: a JSON envelope
\* (send_acl) and a classic message (acl_msg)
HumanMessages(sender, cid) ==
    { to_spade(build_message("INFORM", cid, {}, "gotowe"), HumanAgent, sender),
      acl_msg(HumanAgent, sender, "INFORM", "gotowe", cid, None) }

InitHuman ==
    /\ call = NoCall
    /\ ret = NotCalled
    /\ _REGISTRY = EmptyDict
    /\ started = [a \in HumanAgents |-> a = HumanAgent]
    /\ _role = [a \in HumanAgents |-> ""]
    /\ _auto_ai = [a \in HumanAgents |-> FALSE]
    /\ _pending = [a \in HumanAgents |-> EmptyDict]
    /\ _last_sender_by_cid = [a \in HumanAgents |-> EmptyDict]
    /\ inbox = [a \in HumanAgents |-> <<>>]
    /\ sendq = [a \in HumanAgents |-> <<>>]
    /\ pc = [a \in HumanAgents |-> "idle"]
    /\ cur = [a \in HumanAgents |-> NoCur]
    /\ injected = 0
    /\ llm_calls = 0
    /\ awaiting = {}
    /\ last = NoLast
    /\ _STORE = EmptyDict
    /\ recorded = EmptyDict
    /\ now = 0
    /\ heap = <<>>
    /\ held = NoSnapshot
    /\ sink = <<>>
    /\ outdir = <<>>
    /\ _last_mode_by_cid = EmptyDict
    /\ arrived = <<>>
    /\ _character = [a \in DOMAIN started |->
          IF started[a] THEN _env_character_for(alias(a)) ELSE ""]
    /\ upd_tasks = <<>>

\* a message arrives at the bridge: it is queued for every behaviour whose
\* template matches it
InjectHuman ==
    /\ injected < MaxInjectHuman
    /\ Len(inbox[HumanAgent]) < MaxInbox
    /\ Len(sink) < MaxInbox
    /\ \E p \in HumanAgents \ {HumanAgent} : \E c \in HumanCids :
       \E m \in HumanMessages(p, c) :
       \E e \in {[n |-> injected + 1, msg |-> m]} :
          /\ inbox' = IF InboxTemplate(m)
                      THEN [inbox EXCEPT ![HumanAgent] = Append(@, e)]
                      ELSE inbox
          /\ sink' = IF ClassicTemplate(m) THEN Append(sink, e) ELSE sink
          /\ arrived' = Append(arrived, m)
    /\ injected' = injected + 1
    /\ UNCHANGED <<call, ret, _REGISTRY, started, _role, _auto_ai, _pending,
                   _last_sender_by_cid, sendq, pc, cur, llm_calls, awaiting,
                   last, _STORE, recorded, now, heap, held, outdir,
                   _last_mode_by_cid, _character, upd_tasks>>

\* InboxBehaviour.run of the bridge; HumanAgent.handle_acl notes the mode
HumanInboxRun ==
    /\ inbox[HumanAgent] # <<>>
    /\ \E e \in {Head(inbox[HumanAgent])} :
       \E acl \in {from_spade(e.msg)} :
       \E step \in {InboxStep(_REGISTRY, HumanAgent, "", FALSE, EmptyDict,
                              e.msg, acl)} :
       LET parsed == step.via \in {"registry", "handle_acl"}
           sends == IF step.via = "registry" THEN step.did.sends ELSE <<>>
       IN  /\ inbox' = [inbox EXCEPT ![HumanAgent] = Tail(@)]
           /\ _last_sender_by_cid' =
                 IF parsed /\ acl.conversation_id \notin {None, ""}
                 THEN [_last_sender_by_cid EXCEPT
                         ![HumanAgent] = DictSet(@, acl.conversation_id, e.msg.sender)]
                 ELSE _last_sender_by_cid
           /\ _last_mode_by_cid' =
                 IF step.via = "handle_acl"
                 THEN DictSet(_last_mode_by_cid,
                              Or(acl.conversation_id, "(brak-cid)"), "json")
                 ELSE _last_mode_by_cid
           /\ sendq' = [sendq EXCEPT ![HumanAgent] = @ \o send_acl(HumanAgent, sends)]
           /\ _STORE' = _rec_all(_STORE, HumanAgent,
                 (IF parsed THEN <<Entry("IN", acl, e.msg.sender)>> ELSE <<>>)
                 \o OutEntries(sends))
           /\ last' = [via |-> step.via, agent |-> HumanAgent, n |-> e.n]
    /\ UNCHANGED <<call, ret, _REGISTRY, started, _role, _auto_ai, _pending,
                   pc, cur, injected, llm_calls, awaiting, recorded, now,
                   heap, held, sink, outdir, arrived, _character, upd_tasks>>

\* ClassicInbox.run with a message received
ClassicInboxRun ==
    /\ sink # <<>>
    /\ \E e \in {Head(sink)} :
       LET md == e.msg.metadata
           cid == Or(Get(md.conversation_id),
                     Or(Get(md.conversation_legacy), "(brak-cid)"))
       IN  /\ sink' = Tail(sink)
           /\ _last_mode_by_cid' = DictSet(_last_mode_by_cid, cid, "classic")
           /\ last' = [via |-> "ClassicInbox", agent |-> HumanAgent, n |-> e.n]
    /\ UNCHANGED <<call, ret, _REGISTRY, started, _role, _auto_ai, _pending,
                   _last_sender_by_cid, inbox, sendq, pc, cur, injected,
                   llm_calls, awaiting, _STORE, recorded, now, heap, held,
                   outdir, arrived, _character, upd_tasks>>

\* _send_json(to, performative, text, cid=cid): its send_acl call; the
\* reply_by it sets, 20 s ahead, is left out
_send_json(to_alias_or_jid, performative, text, cid) ==
    Send(resolve(_REGISTRY, to_alias_or_jid),
         build_message(performative, cid, {<<"from", "human">>}, text))

\* _send_classic(to, performative, text, cid=cid): the message handed to send
_send_classic(to_alias_or_jid, performative, text, cid) ==
    acl_msg(resolve(_REGISTRY, to_alias_or_jid), HumanAgent, performative,
            text, cid, None)

NoReply == [mode |-> "none", sends |-> <<>>, msgs |-> <<>>]

\* variant: answers in JSON whatever the mode noted for the conversation
ConsoleLoopReply_m(cid, performative, text) ==
    LET to == DictGet(_last_sender_by_cid[HumanAgent], cid)
    IN  IF to \in {None, ""} THEN NoReply
        ELSE [mode |-> "json",
              sends |-> <<_send_json(to, performative, text, cid)>>,
              msgs |-> <<>>]

\* ConsoleLoop.run on "reply <CID> <PERF> <text>": the send_acl calls and the
\* classic messages it makes
ConsoleLoopReply(cid, performative, text) ==
    LET to == DictGet(_last_sender_by_cid[HumanAgent], cid)
        mode == IF cid \in DOMAIN _last_mode_by_cid
                THEN _last_mode_by_cid[cid] ELSE "json"
    IN  IF to \in {None, ""} THEN NoReply
        ELSE IF mode = "classic"
        THEN [mode |-> "classic", sends |-> <<>>,
              msgs |-> <<_send_classic(to, performative, text, cid)>>]
        ELSE [mode |-> "json",
              sends |-> <<_send_json(to, performative, text, cid)>>,
              msgs |-> <<>>]

\* the operator types "reply <CID> <PERF> <text>"
ConsoleReply(cid, performative) ==
    /\ Len(sendq[HumanAgent]) < MaxInbox
    /\ LET out == ConsoleLoopReply(cid, performative, "dzi~kuj~")
       IN  /\ sendq' = [sendq EXCEPT
                 ![HumanAgent] = @ \o send_acl(HumanAgent, out.sends) \o out.msgs]
           /\ _last_mode_by_cid' =
                 IF out.mode = "none" THEN _last_mode_by_cid
                 ELSE DictSet(_last_mode_by_cid, cid, out.mode)
           /\ _STORE' = _rec_all(_STORE, HumanAgent, OutEntries(out.sends))
           /\ last' = [via |-> "reply", agent |-> HumanAgent, cid |-> cid]
    /\ UNCHANGED <<call, ret, _REGISTRY, started, _role, _auto_ai, _pending,
                   _last_sender_by_cid, inbox, pc, cur, injected, llm_calls,
                   awaiting, recorded, now, heap, held, sink, outdir, arrived,
                   _character, upd_tasks>>

NextHuman ==
    \/ InjectHuman
    \/ HumanInboxRun
    \/ ClassicInboxRun
    \/ \E c \in HumanCids : \E p \in {"INFORM", "agree"} : ConsoleReply(c, p)
    \/ Dispatch(HumanAgent)

SpecHuman == InitHuman /\ [][NextHuman]_vars

-----------------------------------------------------------------------------
(* agents/coordinator.py: KickOff and WaitReplies *)

ReceiveTimeout == 15          \* self.receive(timeout=15)
ConversationDeadline == 30    \* self.deadline = time() + 30.0

OrderConv == "order-new"      \* new_conv_id("order")
ReplyByIso == "<now+8..15s>"  \* iso_in(random.randint(8, 15))
ProviderNeed == "realizacja zam~wie~ pieczywa, dostawca, produkcja, logistyka"
ReporterNeed == "audyt, rejestrowanie przebiegu konwersacji, logowanie, raportowanie"

Min(a, b) == IF a <= b THEN a ELSE b

\* KickOff.run: the addresses it resolves
KickOffProvider(registry, self) ==
    resolve(registry, Or(choose_agent_by_character(registry, self, ProviderNeed,
                                                   FALSE, FALSE, {}), "provider"))

KickOffReporter(registry, self) ==
    resolve(registry, Or(choose_agent_by_character(registry, self, ReporterNeed,
                                                   FALSE, FALSE, {}), "reporter"))

\* KickOff.run: the REQUEST and the audit note it sends, in order
KickOffSends(registry, self) ==
    LET provider_jid == KickOffProvider(registry, self)
        reporter_jid == KickOffReporter(registry, self)
        req == acl_msg(provider_jid, self, "REQUEST", OrderText, OrderConv, ReplyByIso)
        md  == req.metadata
        audit == Message(reporter_jid, self, "text",
                         [fmt |-> "AUDIT: wys~ano REQUEST -> {provider_jid} ({conv})",
                          provider_jid |-> provider_jid, conv |-> OrderConv],
                         NoObj,
                         Metadata("INFORM", SetDefault(md.protocol, "fipa-request"),
                                  SetDefault(md.conversation_id, OrderConv), Absent,
                                  SetDefault(md.ontology, "office.demo"),
                                  SetDefault(md.language, "text"), md.reply_by))
    IN  <<req, audit>>

\* WaitReplies.__init__
WaitRepliesInit(conv, reporter_jid, t) ==
    [busy |-> TRUE, conv_id |-> conv, reporter_jid |-> reporter_jid,
     got_agree |-> FALSE, deadline |-> t + ConversationDeadline, idle_for |-> 0]

\* the final audit message of WaitReplies.run
FinalAudit(self, st, msg) ==
    LET md2 == msg.metadata
    IN  Message(st.reporter_jid, self, "text",
                [fmt |-> "AUDIT: wynik zam~wienia ({conv_id}): {body}",
                 conv_id |-> st.conv_id, body |-> msg.body_text],
                NoObj,
                Metadata("INFORM", SetDefault(md2.protocol, "fipa-request"),
                         SetDefault(md2.conversation_id, st.conv_id), Absent,
                         SetDefault(md2.ontology, "office.demo"),
                         SetDefault(md2.language, "text"), Absent))

\* WaitReplies.run with a received message: what it sends, got_agree
\* afterwards and whether it called self.kill()
WaitReplies(self, st, msg) ==
    LET p == perf(msg)
    IN  IF p = "AGREE"
        THEN [sends |-> <<>>, got_agree |-> TRUE, killed |-> FALSE]
        ELSE IF p = "REFUSE"
        THEN [sends |-> <<>>, got_agree |-> st.got_agree, killed |-> TRUE]
        ELSE IF p \in {"INFORM", "FAILURE"}
        THEN [sends |-> <<FinalAudit(self, st, msg)>>,
              got_agree |-> st.got_agree, killed |-> TRUE]
        ELSE [sends |-> <<>>, got_agree |-> st.got_agree, killed |-> FALSE]

\* WaitReplies.run when receive(timeout=15) returned nothing
WaitRepliesNoMsg(st, t) ==
    [sends |-> <<>>, got_agree |-> st.got_agree, killed |-> t >= st.deadline]

\* replies a peer sends for the conversation, and one of another conversation
ReplyMessages(self) ==
    { acl_msg(self, "provider", p, "ok", OrderConv, None) :
        p \in {"AGREE", "REFUSE", "INFORM", "FAILURE", "CANCEL"} }
    \cup { acl_msg(self, "provider", "INFORM", "ok", "c2", None) }

InitRequester ==
    /\ call = NoCall
    /\ ret = NotCalled
    /\ _REGISTRY = EmptyDict
    /\ started = [a \in {K} |-> TRUE]
    /\ _role = [a \in {K} |-> ""]
    /\ _auto_ai = [a \in {K} |-> FALSE]
    /\ _pending = [a \in {K} |-> EmptyDict]
    /\ _last_sender_by_cid = [a \in {K} |-> EmptyDict]
    /\ inbox = [a \in {K} |-> <<>>]
    /\ sendq = [a \in {K} |-> <<>>]
    /\ pc = [a \in {K} |-> "start"]
    /\ cur = [a \in {K} |-> NoCur]
    /\ injected = 0
    /\ llm_calls = 0
    /\ awaiting = {}
    /\ last = NoLast
    /\ _STORE = EmptyDict
    /\ recorded = EmptyDict
    /\ now = 0
    /\ heap = <<>>
    /\ held = NoSnapshot
    /\ sink = <<>>
    /\ outdir = <<>>
    /\ _last_mode_by_cid = EmptyDict
    /\ arrived = <<>>
    /\ _character = [a \in DOMAIN started |->
          IF started[a] THEN _env_character_for(alias(a)) ELSE ""]
    /\ upd_tasks = <<>>

\* KickOff.run: adds the waiter, then sends the REQUEST and the audit note
KickOff ==
    /\ pc[K] = "start"
    /\ pc' = [pc EXCEPT ![K] = "wait"]
    /\ cur' = [cur EXCEPT ![K] =
                  WaitRepliesInit(OrderConv, KickOffReporter(_REGISTRY, K), now)]
    /\ sendq' = [sendq EXCEPT ![K] = @ \o KickOffSends(_REGISTRY, K)]
    /\ UNCHANGED <<call, ret, _REGISTRY, started, _role, _auto_ai, _pending,
                   _last_sender_by_cid, inbox, injected, llm_calls, awaiting,
                   last, _STORE, recorded, now, heap, held,
                   sink, outdir, _last_mode_by_cid, arrived,
                   _character, upd_tasks>>

\* a message arrives while the waiter is attached; its mailbox takes it when
\* Template(metadata={"conversation_id": conv}) matches
Arrive ==
    /\ pc[K] = "wait"
    /\ Len(inbox[K]) < MaxInbox
    /\ \E m \in ReplyMessages(K) :
          inbox' = IF m.metadata.conversation_id = cur[K].conv_id
                   THEN [inbox EXCEPT ![K] = Append(@, m)]
                   ELSE inbox
    /\ UNCHANGED <<call, ret, _REGISTRY, started, _role, _auto_ai, _pending,
                   _last_sender_by_cid, sendq, pc, cur, injected, llm_calls,
                   awaiting, last, _STORE, recorded, now, heap, held,
          sink, outdir, _last_mode_by_cid, arrived, _character, upd_tasks>>

\* the outcome of one run of WaitReplies is applied
WaitRepliesDone(msg, did) ==
    /\ sendq' = [sendq EXCEPT ![K] = @ \o did.sends]
    /\ pc' = [pc EXCEPT ![K] = IF did.killed THEN "killed" ELSE "wait"]
    /\ cur' = [cur EXCEPT ![K].got_agree = did.got_agree, ![K].idle_for = 0]
    /\ last' = [via |-> "WaitReplies", msg |-> msg, sends |-> did.sends,
                killed |-> did.killed, at |-> now]
    /\ UNCHANGED <<call, ret, _REGISTRY, started, _role, _auto_ai, _pending,
                   _last_sender_by_cid, injected, llm_calls, awaiting,
                   _STORE, recorded, now, heap, held,
                   sink, outdir, _last_mode_by_cid, arrived,
                   _character, upd_tasks>>

\* one run of WaitReplies in which receive returns a message
WaitRepliesRun ==
    /\ pc[K] = "wait"
    /\ inbox[K] # <<>>
    /\ \E msg \in {Head(inbox[K])} : \E did \in {WaitReplies(K, cur[K], msg)} :
          /\ inbox' = [inbox EXCEPT ![K] = Tail(@)]
          /\ WaitRepliesDone(msg, did)

\* one run of WaitReplies in which receive times out
WaitRepliesTimeout ==
    /\ pc[K] = "wait"
    /\ inbox[K] = <<>>
    /\ cur[K].idle_for >= ReceiveTimeout
    /\ \E did \in {WaitRepliesNoMsg(cur[K], now)} :
          /\ inbox' = inbox
          /\ WaitRepliesDone(NoMsg, did)

\* time passes while receive is waiting, at most until its timeout
Tick ==
    /\ pc[K] = "wait"
    /\ cur[K].idle_for < ReceiveTimeout
    /\ now' = Min(now + TickStep, MaxClock)
    /\ cur' = [cur EXCEPT ![K].idle_for = Min(@ + TickStep, ReceiveTimeout)]
    /\ UNCHANGED <<call, ret, _REGISTRY, started, _role, _auto_ai, _pending,
                   _last_sender_by_cid, inbox, sendq, pc, injected, llm_calls,
                   awaiting, last, _STORE, recorded, heap, held,
                   sink, outdir, _last_mode_by_cid, arrived,
                   _character, upd_tasks>>

NextRequester ==
    \/ KickOff
    \/ Arrive
    \/ WaitRepliesRun
    \/ WaitRepliesTimeout
    \/ Tick
    \/ Dispatch(K)

SpecRequester == InitRequester /\ [][NextRequester]_vars

\* the behaviour is scheduled, its sends go out and time keeps passing
FairRequester ==
    /\ SpecRequester
    /\ WF_vars(KickOff)
    /\ WF_vars(WaitRepliesRun \/ WaitRepliesTimeout)
    /\ WF_vars(Tick)
    /\ WF_vars(Dispatch(K))

-----------------------------------------------------------------------------
(* common/base.py: the registry and the objects its descriptors refer to *)

P2 == "provider_bakery@xmpp"     \* a second agent whose alias is "provider"
RegistryAgents == {P, P2, R}

\* the info dict of setup(): the fields of SetupInfo plus the two list
\* objects it creates, held by reference
SetupInfoRefs(self, protocols, ontologies) ==
    [f \in DOMAIN SetupInfo(self) \cup {"protocols", "ontologies"} |->
        IF f = "protocols" THEN protocols
        ELSE IF f = "ontologies" THEN ontologies
        ELSE SetupInfo(self)[f]]

\* what a mapping alias -> descriptor says once its references are followed
View(mapping, h) ==
    [al \in DOMAIN mapping |->
        [f \in DOMAIN mapping[al] |->
            IF f \in {"protocols", "ontologies"} THEN h[mapping[al][f]]
            ELSE mapping[al][f]]]

InitShared ==
    /\ call = NoCall
    /\ ret = NotCalled
    /\ _REGISTRY = EmptyDict
    /\ started = [a \in RegistryAgents |-> FALSE]
    /\ _role = [a \in RegistryAgents |-> ""]
    /\ _auto_ai = [a \in RegistryAgents |-> FALSE]
    /\ _pending = [a \in RegistryAgents |-> EmptyDict]
    /\ _last_sender_by_cid = [a \in RegistryAgents |-> EmptyDict]
    /\ inbox = [a \in RegistryAgents |-> <<>>]
    /\ sendq = [a \in RegistryAgents |-> <<>>]
    /\ pc = [a \in RegistryAgents |-> "idle"]
    /\ cur = [a \in RegistryAgents |-> NoCur]
    /\ injected = 0
    /\ llm_calls = 0
    /\ awaiting = {}
    /\ last = NoLast
    /\ _STORE = EmptyDict
    /\ recorded = EmptyDict
    /\ now = 0
    /\ heap = <<>>
    /\ held = NoSnapshot
    /\ sink = <<>>
    /\ outdir = <<>>
    /\ _last_mode_by_cid = EmptyDict
    /\ arrived = <<>>
    /\ _character = [a \in DOMAIN started |->
          IF started[a] THEN _env_character_for(alias(a)) ELSE ""]
    /\ upd_tasks = <<>>

\* BaseACLAgent.setup with the info dict as an object: the two lists are
\* created, then _register stores the descriptor under the lock
SetupShared(a) ==
    /\ ~started[a]
    /\ started' = [started EXCEPT ![a] = TRUE]
    /\ _role' = [_role EXCEPT ![a] = _env_role_for(alias(a))]
    /\ heap' = heap \o << <<"fipa-request">>, <<"office.demo", "office.registry">> >>
    /\ \E info \in {SetupInfoRefs(a, Len(heap) + 1, Len(heap) + 2)} :
          /\ _REGISTRY' = _register(_REGISTRY, alias(a), info)
          /\ last' = [via |-> "_register", agent |-> a, alias |-> alias(a),
                      info |-> info]
    /\ _character' = [_character EXCEPT ![a] = _env_character_for(alias(a))]
    /\ UNCHANGED <<call, ret, _auto_ai, _pending, _last_sender_by_cid, inbox,
                   sendq, pc, cur, injected, llm_calls, awaiting, _STORE,
                   recorded, now, held, sink, outdir,
                   _last_mode_by_cid, arrived, upd_tasks>>

callerVars == <<call, ret, _REGISTRY, started, _role, _auto_ai, _pending,
                _last_sender_by_cid, inbox, sendq, pc, cur, injected,
                llm_calls, awaiting, last, _STORE, recorded, now,
                sink, outdir, _last_mode_by_cid, arrived,
                _character, upd_tasks>>

\* a caller takes registry_snapshot() and keeps the result
TakeSnapshot ==
    /\ held' = registry_snapshot(_REGISTRY)
    /\ UNCHANGED <<callerVars, heap>>

\* the caller assigns a field of a descriptor of its snapshot
CallerSetsField ==
    /\ held # NoSnapshot
    /\ \E al \in DOMAIN held :
          held' = [held EXCEPT ![al].character = "zmieniony"]
    /\ UNCHANGED <<callerVars, heap>>

\* the caller removes an alias from its snapshot
CallerDropsAlias ==
    /\ held # NoSnapshot
    /\ \E al \in DOMAIN held : held' = DictPop(held, al)
    /\ UNCHANGED <<callerVars, heap>>

\* the caller appends to the protocols list of a descriptor of its snapshot
CallerAppendsToList ==
    /\ held # NoSnapshot
    /\ \E al \in DOMAIN held :
          /\ Len(heap[held[al].protocols]) < MaxListLen
          /\ heap' = [heap EXCEPT ![held[al].protocols] = Append(@, "fipa-query")]
    /\ UNCHANGED <<callerVars, held>>

NextShared ==
    \/ \E a \in RegistryAgents : SetupShared(a)
    \/ TakeSnapshot
    \/ CallerSetsField
    \/ CallerDropsAlias
    \/ CallerAppendsToList

SpecShared == InitShared /\ [][NextShared]_vars

-----------------------------------------------------------------------------
(* common/base.py: set_character *)

MaxTasks == 2   \* _upd tasks waiting to run

CharacterTexts == {"piekarz", " piekarz ", "audytor"}

\* (text or "").strip()
strip(text) ==
    IF text = None THEN "" ELSE IF text = " piekarz " THEN "piekarz" ELSE text

\* set_character(text): the attribute is set and the task _upd is created;
\* the task keeps self and alias, text is noted for reference
SetCharacter(a, text) ==
    /\ Len(upd_tasks) < MaxTasks
    /\ _character' = [_character EXCEPT ![a] = strip(text)]
    /\ upd_tasks' = Append(upd_tasks,
                           [agent |-> a, alias |-> alias(a), text |-> text])
    /\ UNCHANGED <<call, ret, _REGISTRY, started, _role, _auto_ai, _pending,
                   _last_sender_by_cid, inbox, sendq, pc, cur, injected,
                   llm_calls, awaiting, last, _STORE, recorded, now, heap,
                   held, sink, outdir, _last_mode_by_cid, arrived>>

\* variant: registers a descriptor also when the alias has none
_upd_m(registry, al, character) ==
    LET snapshot == registry_snapshot(registry)
    IN  _register(registry, al,
                  IF al \in DOMAIN snapshot
                  THEN [snapshot[al] EXCEPT !.character = character]
                  ELSE [character |-> character])

\* _upd(): the registry it leaves, `character` being self._character when
\* the task runs
_upd(registry, al, character) ==
    LET snapshot == registry_snapshot(registry)
    IN  IF al \in DOMAIN snapshot
        THEN _register(registry, al,
                       [snapshot[al] EXCEPT !.character = character])
        ELSE registry

\* the event loop runs the oldest task; nothing in _upd suspends it, the
\* lock of _register being free whenever a task asks for it
UpdRun ==
    /\ upd_tasks # <<>>
    /\ \E t \in {Head(upd_tasks)} :
          /\ _REGISTRY' = _upd(_REGISTRY, t.alias, _character[t.agent])
          /\ last' = [via |-> "_upd", agent |-> t.agent, alias |-> t.alias,
                      text |-> t.text]
    /\ upd_tasks' = Tail(upd_tasks)
    /\ UNCHANGED <<call, ret, started, _role, _auto_ai, _pending,
                   _last_sender_by_cid, inbox, sendq, pc, cur, injected,
                   llm_calls, awaiting, _STORE, recorded, now, heap, held,
                   sink, outdir, _last_mode_by_cid, arrived, _character>>

NextCharacter ==
    \/ \E a \in RegistryAgents : SetupShared(a)
    \/ \E a \in RegistryAgents : \E text \in CharacterTexts : SetCharacter(a, text)
    \/ UpdRun

SpecCharacter == InitShared /\ [][NextCharacter]_vars

-----------------------------------------------------------------------------
(* Calls into common/history.py *)

HistoryKeys == {"coordinator_office", "provider_office"}

HistoryEntries ==
    { Entry("IN", build_message("REQUEST", "c1", {}, OrderText), "human@xmpp"),
      Entry("OUT", build_message("AGREE", "c1", {}, "ok"), "human@xmpp"),
      Entry("IN", build_message("INFORM", "c2", {}, "ok"), P) }

\* total number of entries handed to record so far
RECURSIVE RecordedTotal(_)
RecordedTotal(keys) ==
    IF keys = {} THEN 0
    ELSE LET k == CHOOSE x \in keys : TRUE
         IN  Len(Buffer(recorded, k)) + RecordedTotal(keys \ {k})

\* an agent hands one entry to record, the way base.py does
HistoryRecord ==
    /\ RecordedTotal(HistoryKeys) < MaxRecords
    /\ \E k \in HistoryKeys : \E e \in HistoryEntries :
          /\ recorded' = DictSet(recorded, k, Append(Buffer(recorded, k), e))
          /\ _STORE' = _rec(_STORE, k, e)
    /\ UNCHANGED <<call, ret, _REGISTRY, started, _role, _auto_ai, _pending,
                   _last_sender_by_cid, inbox, sendq, pc, cur, injected,
                   llm_calls, awaiting, last, now, heap, held,
                   sink, outdir, _last_mode_by_cid, arrived,
                   _character, upd_tasks>>

\* from common.history import recent; recent(key, limit)
HistoryRecent ==
    /\ \E k \in HistoryKeys : \E limit \in 0..(_default_limit + 1) :
          /\ call' = [fn |-> "recent", agent_name |-> k, limit |-> limit]
          /\ ret' = IF Raised(history_import) THEN history_import
                    ELSE [v |-> recent(_STORE, k, limit)]
    /\ UNCHANGED agentVars

\* from common.history import recent_thread; recent_thread(key, cid, limit)
HistoryRecentThread ==
    /\ \E k \in HistoryKeys : \E cid \in {"c1", "c2"} :
       \E limit \in 0..(_default_limit + 1) :
          /\ call' = [fn |-> "recent_thread", agent_name |-> k,
                       conversation_id |-> cid, limit |-> limit]
          /\ ret' = IF Raised(history_import) THEN history_import
                    ELSE [v |-> recent_thread(_STORE, k, cid, limit)]
    /\ UNCHANGED agentVars

NextHistory ==
    \/ HistoryRecord
    \/ HistoryRecent
    \/ HistoryRecentThread

SpecHistory == Init /\ [][NextHistory]_vars

-----------------------------------------------------------------------------
(* Function calls *)

Call_is_valid_transition ==
    /\ call.fn = "is_valid_transition" /\ ret = NotCalled
    /\ ret' = [v |-> is_valid_transition(call.incoming_perf, call.outgoing_perf)]
    /\ UNCHANGED <<call, agentVars, now>>

Call_AclMessage ==
    /\ call.fn = "AclMessage" /\ ret = NotCalled
    /\ ret' = AclMessage(Obj(call.performative, call.conversation_id, Absent,
                             Absent, Absent, Absent, Absent, Absent,
                             call.payload_kind, {}))
    /\ UNCHANGED <<call, agentVars, now>>

Call_ensure_reply_by ==
    /\ call.fn = "ensure_reply_by" /\ ret = NotCalled
    /\ ret' = [v |-> ensure_reply_by(call.value, call.now_utc)]
    /\ UNCHANGED <<call, agentVars, now>>

Call_build_message ==
    /\ call.fn = "build_message" /\ ret = NotCalled
    /\ ret' = build_message(call.performative, call.conversation_id,
                            call.payload, call.text)
    /\ UNCHANGED <<call, agentVars, now>>

Call_make_reply ==
    /\ call.fn = "make_reply" /\ ret = NotCalled
    /\ ret' = make_reply(call.incoming, call.performative, call.payload, None,
                         call.protocol, call.ontology, None,
                         call.strict_transition)
    /\ UNCHANGED <<call, agentVars, now>>

Call_from_spade ==
    /\ call.fn = "from_spade" /\ ret = NotCalled
    /\ ret' = from_spade(call.msg)
    /\ UNCHANGED <<call, agentVars, now>>

\* to_spade, and from_spade on what it produced
Call_to_spade ==
    /\ call.fn = "to_spade" /\ ret = NotCalled
    /\ ret' = [msg |-> to_spade(call.self, call.to_jid, call.sender_jid),
               back |-> from_spade(to_spade(call.self, call.to_jid,
                                            call.sender_jid))]
    /\ UNCHANGED <<call, agentVars, now>>

Call_ai_respond_to_acl ==
    /\ call.fn = "ai_respond_to_acl" /\ ret = NotCalled
    /\ ret' = ai_respond_to_acl(call.incoming, call.response)
    /\ UNCHANGED <<call, agentVars, now>>

Call_choose_agent_by_character ==
    /\ call.fn = "choose_agent_by_character" /\ ret = NotCalled
    /\ ret' = [v |-> choose_agent_by_character(call.registry, call.self,
                         call.prompt, call.include_self, call.allowed_given,
                         call.allowed)]
    /\ UNCHANGED <<call, agentVars, now>>

Call_resolve ==
    /\ call.fn = "resolve" /\ ret = NotCalled
    /\ ret' = [v |-> resolve(call.registry, call.alias_or_jid)]
    /\ UNCHANGED <<call, agentVars, now>>

Call_handle_acl ==
    /\ call.fn = "handle_acl" /\ ret = NotCalled
    /\ ret' = handle_acl(call.registry, call.self, "coordinator", FALSE,
                         EmptyDict, call.acl, call.sender_jid)
    /\ UNCHANGED <<call, agentVars, now>>

NextPure ==
    \/ Call_choose_agent_by_character
    \/ Call_handle_acl
    \/ Call_resolve
    \/ Call_is_valid_transition
    \/ Call_AclMessage
    \/ Call_ensure_reply_by
    \/ Call_build_message
    \/ Call_make_reply
    \/ Call_from_spade
    \/ Call_to_spade
    \/ Call_ai_respond_to_acl

SpecPure == InitPure /\ [][NextPure]_vars

-----------------------------------------------------------------------------
(* Transition rules and the envelope *)

\* C1: is_valid_transition(incoming, outgoing) is true exactly when the
\* upper-cased outgoing performative is AGREE or REFUSE after REQUEST, INFORM
\* or FAILURE after AGREE, and any of the six allowed performatives after
\* None or any other incoming value; both arguments compare
\* case-insensitively.
TransitionTable ==
    Returned("is_valid_transition") =>
        LET i == call.incoming_perf
            o == Upper(call.outgoing_perf)
            six == {"REQUEST", "AGREE", "REFUSE", "INFORM", "FAILURE", "CANCEL"}
            expected ==
                \/ i = None /\ o \in six
                \/ i # None /\ Upper(i) = "REQUEST" /\ o \in {"AGREE", "REFUSE"}
                \/ i # None /\ Upper(i) = "AGREE" /\ o \in {"INFORM", "FAILURE"}
                \/ i # None /\ Upper(i) \notin {"REQUEST", "AGREE"} /\ o \in six
        IN  ret.v = expected

\* a mixed-case REQUEST -> AGREE has been accepted
TransitionAccepted ==
    /\ Returned("is_valid_transition")
    /\ call.incoming_perf = "request" /\ call.outgoing_perf = "Agree"
    /\ ret.v = TRUE

\* C2: constructing an AclMessage with performative p (the other fields
\* valid) succeeds iff uppercase(p) is one of the six allowed performatives,
\* and then stores uppercase(p); with any other p construction fails.
ConstructionChecksPerformative ==
    Returned("AclMessage") =>
        LET p == call.performative
            allowed == p \notin {None, NonStr, Absent}
                       /\ Upper(p) \in {"REQUEST", "AGREE", "REFUSE", "INFORM",
                                        "FAILURE", "CANCEL"}
            others_valid == call.conversation_id \in {"c1", " c1 "}
                            /\ call.payload_kind # "nondict"
        IN  /\ ~allowed => Raised(ret)
            /\ allowed /\ others_valid => ~Raised(ret)
            /\ ~Raised(ret) => allowed /\ ret.performative = Upper(p)

\* a lower-case performative was accepted and stored in upper case
ConstructionNormalised ==
    /\ Returned("AclMessage")
    /\ call.performative = "inform" /\ ~Raised(ret)
    /\ ret.performative = "INFORM"

\* the message carries no conversation id in its metadata or its body
NoConversationId(msg) ==
    /\ msg.metadata.conversation_id = Absent
    /\ msg.metadata.conversation_legacy = Absent
    /\ msg.body_kind = "json" => msg.body_obj.conversation_id \in {Absent, None}

\* C3: every envelope produced by direct construction, build_message,
\* make_reply, from_spade (JSON body or classic metadata+text) or
\* ai_respond_to_acl has an allowed performative and a conversation id that
\* is neither empty nor only whitespace; from_spade fails on a message with
\* no conversation id in body and metadata.
EnvelopeInvariant ==
    /\ \A fn \in {"AclMessage", "build_message", "make_reply", "from_spade",
                   "ai_respond_to_acl"} :
          Returned(fn) /\ ~Raised(ret) =>
              /\ ret.performative \in {"REQUEST", "AGREE", "REFUSE", "INFORM",
                                        "FAILURE", "CANCEL"}
              /\ ret.conversation_id \notin {None, Absent, NonStr, "", " ", "  "}
    /\ Returned("to_spade") /\ ~Raised(ret.back) =>
              /\ ret.back.performative \in {"REQUEST", "AGREE", "REFUSE",
                                             "INFORM", "FAILURE", "CANCEL"}
              /\ ret.back.conversation_id \notin {None, Absent, NonStr, "", " ", "  "}
    /\ Returned("from_spade") /\ NoConversationId(call.msg) => Raised(ret)

\* from_spade produced an envelope from a classic message whose id came
\* from the legacy metadata key
EnvelopeFromClassic ==
    /\ Returned("from_spade")
    /\ call.msg.body_kind = "text"
    /\ call.msg.metadata.conversation_id = Absent
    /\ call.msg.metadata.conversation_legacy = "c2"
    /\ ~Raised(ret) /\ ret.conversation_id = "c2"

BodyCarriesActualAddresses ==
    Returned("to_spade") =>
        /\ ret.msg.body_obj.sender = call.sender_jid
        /\ ret.msg.body_obj.receiver = call.to_jid

-----------------------------------------------------------------------------
(* Coordinator role *)

\* the coordinator's role logic has just handled an envelope
CoordinatorHandled(perfs) ==
    /\ last.via = "handle_acl"
    /\ last.agent = K
    /\ last.acl.performative \in perfs

\* the address the router's choice for this request resolves to
RoutedPeer(registry, payload) ==
    LET text == IF \E x \in payload : x[1] = "text" /\ x[2] # ""
                THEN (CHOOSE x \in payload : x[1] = "text")[2]
                ELSE DefaultNeed
        chosen == choose_agent_by_character(registry, K, text, FALSE, FALSE, {})
    IN  IF chosen = None
        THEN (IF "provider" \in DOMAIN registry THEN registry["provider"].jid
              ELSE "provider")
        ELSE registry[chosen].jid

\* the two envelopes of a handled REQUEST, with `payload` going downstream
AgreeAndForward(payload) ==
    LET c == last.acl.conversation_id
        I == last.sender
        s == last.sends
    IN  /\ Len(s) = 2
        /\ \E i \in 1..2, j \in 1..2 :
              /\ i # j
              /\ s[i].to = I
              /\ s[i].acl.performative = "AGREE"
              /\ s[i].acl.conversation_id = c
              /\ s[j].to = RoutedPeer(last.registry, last.acl.payload)
              /\ s[j].acl.performative = "REQUEST"
              /\ s[j].acl.conversation_id = c
              /\ s[j].acl.payload = payload
        /\ c \in DOMAIN _pending[K]
        /\ _pending[K][c] = I

\* C5 as stated: on an inbound REQUEST with conversation id c from I the
\* coordinator sends exactly two envelopes, an AGREE with id c to I and a
\* REQUEST with id c and the same payload to the routed peer (alias
\* 'provider' when the router returns none), and records pending[c] = I.
CoordinatorRequestSamePayload ==
    CoordinatorHandled({"REQUEST"}) => AgreeAndForward(last.acl.payload)

\* C5 amended: the same, with the downstream payload equal to the incoming
\* one when that is non-empty and equal to {"text": ""} when it is empty.
CoordinatorRequest ==
    CoordinatorHandled({"REQUEST"}) =>
        AgreeAndForward(IF last.acl.payload = {} THEN {<<"text", "">>}
                        ELSE last.acl.payload)

\* a REQUEST with an empty payload was routed, by score, to the provider
\* although the auditor is registered too
CoordinatorRoutedEmptyRequest ==
    /\ CoordinatorHandled({"REQUEST"})
    /\ last.acl.payload = {}
    /\ {"auditor", "provider"} \subseteq DOMAIN last.registry
    /\ Len(last.sends) = 2
    /\ last.sends[2].to = P
    /\ last.sends[2].acl.payload = {<<"text", "">>}

\* C6: after a REQUEST for conversation id c from I has been handled, the
\* first terminal envelope (INFORM, FAILURE, REFUSE) received with id c is
\* forwarded to I with the same performative, payload and id, and
\* afterwards the Pending-Reply Map has no entry for c.
TerminalForwardedToInitiator ==
    CoordinatorHandled({"INFORM", "FAILURE", "REFUSE"}) =>
        \A I \in last.initiators :
            /\ \E i \in 1..Len(last.sends) :
                  /\ last.sends[i].to = I
                  /\ last.sends[i].acl.performative = last.acl.performative
                  /\ last.sends[i].acl.payload = last.acl.payload
                  /\ last.sends[i].acl.conversation_id = last.acl.conversation_id
            /\ last.acl.conversation_id \notin DOMAIN _pending[K]

\* C7: every Pending-Reply Map entry is eventually removed (at the first
\* terminal forward for its id), also when the routed peer never sends a
\* terminal reply.
PendingEventuallyCleared ==
    \A c \in {"c1", "c2"} :
        (c \in DOMAIN _pending[K]) ~> (c \notin DOMAIN _pending[K])

\* C8: the entry created by the first REQUEST for a conversation id keeps
\* that request's sender for as long as it exists; a later REQUEST with the
\* same id from another sender does not change it.
InitiatorKept ==
    [][ \A c \in DOMAIN _pending[K] :
          c \in DOMAIN _pending'[K] => _pending'[K][c] = _pending[K][c] ]_vars

\* the messages the step hands to the send behaviours of agent a
Issued(a) == SubSeq(sendq'[a], Len(sendq[a]) + 1, Len(sendq'[a]))

\* C27: the coordinator never forwards an AGREE, or any other performative
\* that is neither terminal nor REQUEST: handling such an envelope issues no
\* send and leaves the Pending-Reply Map unchanged.  The only AGREE the
\* coordinator ever sends is the single one that answers a REQUEST its role
\* logic handles, addressed to that REQUEST's sender.
CoordinatorNeverForwardsAgree ==
    [][ \A a \in Agents :
          _role[a] = "coordinator" /\ Len(inbox'[a]) < Len(inbox[a]) =>
            LET msg == Head(inbox[a])
                byRole == last'.via = "handle_acl"
                inPerf == IF byRole THEN last'.acl.performative ELSE None
                agrees == { i \in 1..Len(Issued(a)) :
                              from_spade(Issued(a)[i]).performative = "AGREE" }
            IN  /\ byRole /\ inPerf \notin {"REQUEST", "INFORM", "FAILURE", "REFUSE"}
                      => Issued(a) = <<>> /\ _pending'[a] = _pending[a]
                /\ byRole /\ inPerf = "REQUEST"
                      => /\ Cardinality(agrees) = 1
                         /\ \A i \in agrees : Issued(a)[i].to = msg.sender
                /\ ~(byRole /\ inPerf = "REQUEST") => agrees = {} ]_vars

\* the coordinator ignored the provider's AGREE for a conversation whose
\* initiator is still recorded
ProviderAgreeIgnored ==
    /\ CoordinatorHandled({"AGREE"})
    /\ last.sender = P
    /\ last.sends = <<>>
    /\ last.acl.conversation_id \in DOMAIN last.pending_before
    /\ _pending[K] = last.pending_before

-----------------------------------------------------------------------------
(* Simple provider role *)

\* s without its k-th element
Without(s, k) == SubSeq(s, 1, k - 1) \o SubSeq(s, k + 1, Len(s))

\* the messages of q with the given performative, destination and
\* conversation id
Matching(q, performative, to, cid) ==
    { i \in DOMAIN q : /\ q[i].to = to
                       /\ from_spade(q[i]).performative = performative
                       /\ from_spade(q[i]).conversation_id = cid }

\* one step of the simple provider a: a REQUEST taken from the inbox is
\* answered with a single AGREE and suspends the handler, the resumed
\* handler issues the single INFORM, anything else taken issues nothing,
\* and an INFORM leaves for the transport only after the AGREE issued
\* before it
ProviderStep(a) ==
    /\ Len(inbox'[a]) < Len(inbox[a]) =>
          LET msg == Head(inbox[a])
              acl == from_spade(msg)
              byRole == pc'[a] = "sleep" \/ last'.via = "handle_acl"
          IN  IF byRole /\ acl.performative = "REQUEST"
              THEN /\ pc'[a] = "sleep"
                   /\ Len(Issued(a)) = 1
                   /\ Issued(a)[1].to = msg.sender
                   /\ from_spade(Issued(a)[1]).performative = "AGREE"
                   /\ from_spade(Issued(a)[1]).conversation_id = acl.conversation_id
              ELSE /\ pc'[a] = "idle"
                   /\ byRole => Issued(a) = <<>>
    /\ pc[a] = "sleep" /\ pc'[a] = "idle" =>
          /\ Len(Issued(a)) = 1
          /\ Issued(a)[1].to = cur[a].sender
          /\ from_spade(Issued(a)[1]).performative = "INFORM"
          /\ from_spade(Issued(a)[1]).conversation_id = cur[a].acl.conversation_id
    /\ Len(sendq'[a]) < Len(sendq[a]) =>
          \A k \in DOMAIN sendq[a] :
             sendq'[a] = Without(sendq[a], k)
             /\ from_spade(sendq[a][k]).performative = "INFORM" =>
                LET to == sendq[a][k].to
                    cid == from_spade(sendq[a][k]).conversation_id
                    suspended == /\ pc[a] = "sleep" /\ cur[a].sender = to
                                 /\ cur[a].acl.conversation_id = cid
                IN  Cardinality(Matching(sendq'[a], "AGREE", to, cid))
                      <= Cardinality(Matching(sendq'[a], "INFORM", to, cid))
                         + (IF suspended THEN 1 ELSE 0)

\* C31: the simple provider answers every inbound REQUEST with an AGREE and
\* then, after the processing delay, an INFORM to the sender with the
\* request's conversation id; the AGREE reaches the transport before the
\* INFORM; for any other inbound performative it sends nothing.
ProviderAgreeThenInform ==
    /\ [][ \A a \in Agents :
             _role[a] = "provider_simple" => ProviderStep(a) ]_vars
    /\ (pc[P] = "sleep") ~> (pc[P] = "idle")

\* the provider's AGREE and INFORM for one REQUEST are both waiting for the
\* transport, in that order
AgreeAndInformQueued ==
    /\ Len(sendq[P]) = 2
    /\ from_spade(sendq[P][1]).performative = "AGREE"
    /\ from_spade(sendq[P][2]).performative = "INFORM"
    /\ sendq[P][1].to = sendq[P][2].to
    /\ pc[P] = "idle"

-----------------------------------------------------------------------------
(* Fixed-criterion provider *)

\* the run of FipaResponder for one message is over
ResponderDone == last.via = "FipaResponder" /\ last.at = "done"

\* the message is a REQUEST of the fipa-request protocol with a valid envelope
IsRequestToBakery(msg) ==
    /\ is_fipa_request(msg)
    /\ perf(msg) = "REQUEST"
    /\ ~Raised(from_spade(msg))

\* the request's payload text ("" when it has none)
RequestText(msg) == Or(PayloadGet(from_spade(msg).payload, "text"), "")

\* C13: for every REQUEST whose text contains the configured keyword the
\* provider sends AGREE and then INFORM, both to the requester and both with
\* the request's conversation id, and the INFORM reports the first integer
\* of the request's payload text, or the default quantity when the text
\* holds no integer.
KeywordRequestAgreedThenInformed ==
    ResponderDone /\ IsRequestToBakery(last.msg)
                  /\ Contains(RequestText(last.msg), item_keyword) =>
        LET req == from_spade(last.msg)
            m   == search(RequestText(last.msg))
        IN  /\ Len(last.sends) = 2
            /\ last.sends[1].metadata.performative = "AGREE"
            /\ last.sends[2].metadata.performative = "INFORM"
            /\ \A i \in 1..2 :
                  /\ last.sends[i].to = last.msg.sender
                  /\ last.sends[i].metadata.conversation_id = req.conversation_id
            /\ last.sends[2].body_text.qty =
                  (IF m # {} THEN CHOOSE n \in m : TRUE ELSE default_qty)

\* C14: for every REQUEST whose text does not contain the configured keyword
\* the provider sends exactly one REFUSE with the request's conversation id
\* and neither AGREE nor INFORM; a message that is not a REQUEST gets no
\* reply at all.
OtherRequestRefusedOnce ==
    last.via = "FipaResponder" =>
        /\ IsRequestToBakery(last.msg)
             /\ ~Contains(RequestText(last.msg), item_keyword) =>
               /\ Len(last.sends) = 1
               /\ last.sends[1].metadata.performative = "REFUSE"
               /\ last.sends[1].metadata.conversation_id =
                     from_spade(last.msg).conversation_id
        /\ perf(last.msg) # "REQUEST" => last.sends = <<>>

-----------------------------------------------------------------------------
(* Requester wait behaviour *)

\* the waiter is attached and its hard deadline has elapsed
DeadlineElapsed == pc[K] = "wait" /\ now >= cur[K].deadline

\* C15: once the hard deadline has elapsed without a terminal reply the
\* waiter eventually stops waiting, whatever non-terminal messages keep
\* arriving for the conversation.
StopsAfterDeadline == DeadlineElapsed ~> (pc[K] = "killed")

\* messages sent by the run that are addressed to the reporter and carry the
\* conversation id
AuditSummaries(run) ==
    { i \in 1..Len(run.sends) :
        /\ run.sends[i].to = KickOffReporter(_REGISTRY, K)
        /\ run.sends[i].metadata.conversation_id = OrderConv }

\* C16: on AGREE the waiter keeps waiting; on each of REFUSE, INFORM and
\* FAILURE it stops waiting and sends exactly one audit summary for the
\* conversation id to the reporter.
TerminalStopsWithOneAudit ==
    last.via = "WaitReplies" /\ last.msg # NoMsg =>
        /\ perf(last.msg) = "AGREE" => ~last.killed /\ last.sends = <<>>
        /\ perf(last.msg) \in {"REFUSE", "INFORM", "FAILURE"} =>
              /\ last.killed
              /\ Len(last.sends) = 1
              /\ Cardinality(AuditSummaries(last)) = 1

-----------------------------------------------------------------------------
(* History buffer *)

\* C18: with capacity N, once more than N entries have been recorded for a
\* key its buffer holds exactly the last N of them in recording order;
\* recording for one key leaves the buffers of other keys as they are.
BufferHoldsLastN ==
    \A k \in HistoryKeys :
        Len(Buffer(recorded, k)) > _default_limit =>
            Buffer(_STORE, k) = LastN(Buffer(recorded, k), _default_limit)

\* C19: for every limit >= 0, recent(key, limit) returns the limit most
\* recently recorded entries of the key (fewer when fewer are held), most
\* recent last; recent_thread(key, cid, limit) returns the same restricted
\* to the entries with conversation id cid, in their relative order.
RecentReturnsLastLimit ==
    LET kept == LastN(Buffer(recorded, call.agent_name), _default_limit)
    IN  /\ Returned("recent") =>
              /\ ~Raised(ret)
              /\ ret.v = (IF call.limit = 0 THEN <<>> ELSE LastN(kept, call.limit))
        /\ Returned("recent_thread") =>
              LET thread == SelectSeq(kept,
                              LAMBDA e : e.acl.conversation_id = call.conversation_id)
              IN  /\ ~Raised(ret)
                  /\ ret.v = (IF call.limit = 0 THEN <<>>
                              ELSE LastN(thread, call.limit))

\* what identifies a history entry: direction, peer, performative and
\* conversation id
Brief(e) == <<e.direction, e.peer, e.acl.performative, e.acl.conversation_id>>

Briefs(entries) == [i \in DOMAIN entries |-> Brief(entries[i])]

\* the OUT entries of the messages a step hands to the send behaviours
IssuedBriefs(a) ==
    [i \in DOMAIN Issued(a) |->
        <<"OUT", Issued(a)[i].to, from_spade(Issued(a)[i]).performative,
          from_spade(Issued(a)[i]).conversation_id>>]

\* the inbox loop parses the message: JSON by language or by shape, and a
\* valid envelope
Parsed(msg) ==
    /\ Lower(Or(Get(msg.metadata.language), "")) = "json" \/ is_json_like(msg)
    /\ ~Raised(from_spade(msg))

\* C32: each successfully parsed inbound envelope produces exactly one
\* inbound history entry for the receiving agent, on every decision path
\* (role logic, registry discovery, delegated reasoning, no action), and
\* each envelope passed to send_acl produces exactly one outbound entry:
\* after a step of an agent its buffer is the old one with one IN entry for
\* the envelope it parsed and one OUT entry per envelope it issued, cut to
\* the capacity.
OneHistoryEntryPerEnvelope ==
    [][ \A a \in DelegAgents :
          LET took == Len(inbox'[a]) < Len(inbox[a])
              msg == Head(inbox[a])
              acl == from_spade(msg)
              ins == IF took /\ Parsed(msg)
                     THEN << <<"IN", msg.sender, acl.performative,
                               acl.conversation_id>> >>
                     ELSE <<>>
          IN  Briefs(Buffer(_STORE', a))
                = LastN(Briefs(Buffer(_STORE, a)) \o ins \o IssuedBriefs(a),
                        _default_limit) ]_vars

-----------------------------------------------------------------------------
(* Capability router *)

\* number of tokens the need text shares with a descriptor's character
\* and class text
SharedTokens(prompt, info) ==
    Cardinality(tok(prompt) \cap (tok(info.character) \cup tok(info.class)))

\* C20: without a reasoning backend (and without an allow-list)
\* choose_agent_by_character returns a candidate with the highest count of
\* shared tokens between the need text and the candidate's character plus
\* class text, and among candidates with that top score the lexically
\* smallest alias.
RouterPicksBestThenSmallest ==
    Returned("choose_agent_by_character") /\ ~call.allowed_given =>
        LET reg == call.registry
            cands == { al \in DOMAIN reg :
                         call.include_self \/ al # alias(call.self) }
            r == ret.v
        IN  IF cands = {} THEN r = None
            ELSE /\ r \in cands
                 /\ \A b \in cands :
                       /\ SharedTokens(call.prompt, reg[r])
                            >= SharedTokens(call.prompt, reg[b])
                       /\ SharedTokens(call.prompt, reg[r])
                            = SharedTokens(call.prompt, reg[b])
                          => AliasRank(r) <= AliasRank(b)

\* auditor and provider both share one token with the need text and the
\* auditor, the smaller alias, was returned
RouterTieBroken ==
    /\ Returned("choose_agent_by_character") /\ ~call.allowed_given
    /\ call.prompt = "raport pieczywa"
    /\ {"auditor", "provider", "explorer"} \subseteq DOMAIN call.registry
    /\ SharedTokens(call.prompt, call.registry["provider"]) = 1
    /\ SharedTokens(call.prompt, call.registry["auditor"]) = 1
    /\ ret.v = "auditor"

\* C21: choose_agent_by_character returns none or an alias of the candidate
\* set: a registered alias, not the caller's own unless include_self is set,
\* and a member of the allow-list whenever one is passed, an empty one
\* included; it returns none exactly when the candidate set is empty.
RouterReturnsCandidate ==
    Returned("choose_agent_by_character") =>
        LET cands == { al \in DOMAIN call.registry :
                         /\ call.include_self \/ al # alias(call.self)
                         /\ call.allowed_given => al \in call.allowed }
        IN  IF cands = {} THEN ret.v = None ELSE ret.v \in cands

-----------------------------------------------------------------------------
(* Reply deadline *)

\* the instant falls on a whole second
WholeSecond(t) == t % TicksPerSecond = 0

\* C33: with time in whole seconds, ensure_reply_by(value) returns
\* max(value, now + min_seconds) for a parseable value and
\* now + default_seconds for None or an unparseable value, so the result is
\* never earlier than now + min_seconds; build_message and make_reply leave
\* reply_by unset when none is given.
ReplyByClamped ==
    /\ Returned("ensure_reply_by") /\ WholeSecond(call.now_utc)
          /\ WholeSecond(call.value.t) =>
          LET t == call.now_utc
              lead == t + min_seconds * TicksPerSecond
          IN  /\ call.value.kind = "iso" =>
                    ret.v = (IF call.value.t > lead THEN call.value.t ELSE lead)
              /\ call.value.kind # "iso" =>
                    ret.v = t + default_seconds * TicksPerSecond
              /\ ret.v >= lead
    /\ Returned("build_message") /\ ~Raised(ret) => ret.reply_by = None
    /\ Returned("make_reply") /\ ~Raised(ret) => ret.reply_by = None

\* a deadline one second ahead was moved to the minimum lead
ReplyByMovedForward ==
    /\ Returned("ensure_reply_by")
    /\ call.value.kind = "iso"
    /\ call.now_utc = 2 * TicksPerSecond
    /\ call.value.t = call.now_utc + TicksPerSecond
    /\ ret.v = call.now_utc + min_seconds * TicksPerSecond

-----------------------------------------------------------------------------
(* Reply envelopes *)

\* C25 as stated: every reply built from an incoming envelope carries its
\* conversation id; make_reply carries the incoming protocol and ontology
\* unless an override is passed; ai_respond_to_acl forces protocol to the
\* incoming one, language to json and sender and receiver to null.
ReplyCarriesIncomingFields ==
    /\ Returned("make_reply") /\ ~Raised(ret) =>
          /\ ret.conversation_id = call.incoming.conversation_id
          /\ ret.protocol = (IF call.protocol # None THEN call.protocol
                             ELSE call.incoming.protocol)
          /\ ret.ontology = (IF call.ontology # None THEN call.ontology
                             ELSE call.incoming.ontology)
    /\ Returned("ai_respond_to_acl") /\ ~Raised(ret) =>
          /\ ret.conversation_id = call.incoming.conversation_id
          /\ ret.protocol = call.incoming.protocol
          /\ ret.language = "json"
          /\ ret.sender = None /\ ret.receiver = None

\* C25, amended: as above, except that an empty incoming protocol or
\* ontology is replaced by the default (fipa-request, office.demo) and an
\* empty override counts as no override.
ReplyCarriesIncomingOrDefault ==
    /\ Returned("make_reply") /\ ~Raised(ret) =>
          /\ ret.conversation_id = call.incoming.conversation_id
          /\ ret.protocol =
                (IF call.protocol \notin {None, ""} THEN call.protocol
                 ELSE IF call.incoming.protocol # "" THEN call.incoming.protocol
                 ELSE "fipa-request")
          /\ ret.ontology =
                (IF call.ontology \notin {None, ""} THEN call.ontology
                 ELSE IF call.incoming.ontology # "" THEN call.incoming.ontology
                 ELSE "office.demo")
    /\ Returned("ai_respond_to_acl") /\ ~Raised(ret) =>
          /\ ret.conversation_id = call.incoming.conversation_id
          /\ ret.protocol = (IF call.incoming.protocol # ""
                             THEN call.incoming.protocol ELSE "fipa-request")
          /\ ret.language = "json"
          /\ ret.sender = None /\ ret.receiver = None

\* the backend's plan named another conversation and the reply still
\* carries the incoming one
BackendConversationOverridden ==
    /\ Returned("ai_respond_to_acl") /\ ~Raised(ret)
    /\ call.response.kind = "json_obj"
    /\ call.response.obj.conversation_id = "c2"
    /\ call.incoming.performative = "REQUEST"
    /\ ret.performative = "AGREE"
    /\ ret.conversation_id = "c1"

-----------------------------------------------------------------------------
(* Registry *)

\* C22: resolve(x) returns x unchanged when x contains "@", even if x is
\* also a registered alias; otherwise the registered address of alias x;
\* otherwise the environment hint for x when one is set; otherwise x.
ResolveOrder ==
    Returned("resolve") =>
        LET x == call.alias_or_jid
            reg == call.registry
        IN  /\ ~Raised(ret)
            /\ ret.v = (IF HasAt(x) THEN x
                        ELSE IF x \in DOMAIN reg THEN reg[x].jid
                        ELSE IF EnvJid(x) # None THEN EnvJid(x)
                        ELSE x)

\* an address that is also a registered alias came back unchanged
ResolvedAddressAsAlias ==
    /\ Returned("resolve")
    /\ call.alias_or_jid = "human@xmpp"
    /\ "human@xmpp" \in DOMAIN call.registry
    /\ ret.v = "human@xmpp"

\* C23: register is a last-write-wins overwrite: after a register call the
\* registry maps the alias to the descriptor of that call, the entries of
\* other aliases are as they were, and no entry is ever removed.
RegisterLastWriteWins ==
    [][ /\ DOMAIN _REGISTRY \subseteq DOMAIN _REGISTRY'
        /\ \A a \in RegistryAgents :
              ~started[a] /\ started'[a] =>
                  /\ last'.agent = a
                  /\ _REGISTRY'[alias(a)] = last'.info
                  /\ last'.info.jid = a
                  /\ \A al \in DOMAIN _REGISTRY \ {alias(a)} :
                        _REGISTRY'[al] = _REGISTRY[al]
        /\ started' = started => _REGISTRY' = _REGISTRY ]_vars

\* the second provider registered after the first and its descriptor is
\* the one the registry holds
RegisteredOverFirst ==
    /\ started[P] /\ started[P2]
    /\ last.via = "_register" /\ last.agent = P2
    /\ _REGISTRY["provider"].jid = P2

\* C24: registry_snapshot returns a point-in-time copy: what a caller does
\* to the returned mapping or to the fields of a descriptor in it never
\* changes the registry, and later register calls never change a snapshot
\* already returned.
SnapshotIsACopy ==
    [][ /\ started' = started =>
              View(_REGISTRY', heap') = View(_REGISTRY, heap)
        /\ started' # started /\ held # NoSnapshot =>
              View(held', heap') = View(held, heap) ]_vars

-----------------------------------------------------------------------------
(* Inbox loop *)

\* C11: a message that fails envelope parsing is dropped: nothing is sent
\* for it, no history entry is appended, the last-sender map and the
\* Pending-Reply Map stay as they are, handle_acl is not run, and the loop
\* is ready for the next message.
ParseFailureDropped ==
    [][ \A a \in Agents :
          /\ started[a] /\ pc[a] = "idle" /\ inbox[a] # <<>>
          /\ inbox'[a] = Tail(inbox[a])
          /\ Raised(from_spade(Head(inbox[a])))
          => /\ sendq' = sendq
             /\ _STORE' = _STORE
             /\ _last_sender_by_cid' = _last_sender_by_cid
             /\ _pending' = _pending
             /\ last'.via \in {"parse_error", "not_json"}
             /\ pc'[a] = "idle" ]_vars

\* the coordinator dropped an unparsable JSON message with the next
\* message already waiting
ParseFailureSeen ==
    /\ last.via = "parse_error" /\ last.agent = K
    /\ Raised(last.acl)
    /\ last.sends = <<>>
    /\ inbox[K] # <<>>

\* C12: with a non-empty allow-list of authorized senders and a policy
\* other than 'accept unknown senders', an inbound message from a sender
\* outside the allow-list produces no reply and no context update (history
\* and last-sender map unchanged).
UnauthorizedSenderDropped ==
    [][ \A a \in Agents : \A allow \in (SUBSET Peers) \ {{}} :
          /\ started[a] /\ pc[a] = "idle" /\ inbox[a] # <<>>
          /\ inbox'[a] = Tail(inbox[a])
          /\ Head(inbox[a]).sender \in Peers \ allow
          => /\ sendq' = sendq
             /\ _STORE' = _STORE
             /\ _last_sender_by_cid' = _last_sender_by_cid ]_vars

\* a parsed REQUEST under the registry ontology asking for LIST or DISCOVER
IsDiscovery(acl) ==
    /\ ~Raised(acl)
    /\ acl.ontology \in {"office.registry", "office.registry.v2"}
    /\ acl.performative = "REQUEST"
    /\ PayloadGet(acl.payload, "action") \in {"LIST", "list", "DISCOVER", "discover"}

\* C17: any agent, whatever its role and delegation setting, answers a
\* parsed registry-ontology REQUEST with action LIST or DISCOVER with exactly
\* one INFORM to the sender, carrying the request's conversation id and
\* every alias registered at that moment with its descriptor; handle_acl is
\* not run for that message.
RegistryDiscoveryAnswered ==
    last.via \in {"registry", "handle_acl"} /\ IsDiscovery(last.acl) =>
        /\ last.via = "registry"
        /\ Len(last.sends) = 1
        /\ last.sends[1].to = last.sender
        /\ last.sends[1].acl.performative = "INFORM"
        /\ last.sends[1].acl.conversation_id = last.acl.conversation_id
        /\ \A al \in DOMAIN last.registry :
              <<"agents", al, last.registry[al].jid, last.registry[al].class,
                last.registry[al].character, last.registry[al].role>>
                  \in last.sends[1].acl.payload
        /\ \A x \in last.sends[1].acl.payload :
              x[1] = "agents" => x[2] \in DOMAIN last.registry
        /\ _pending[last.agent] = last.pending_before
        /\ last.response.kind = "none"

\* the coordinator, with three agents registered, answered a lower-case
\* discover request
CoordinatorAnsweredDiscovery ==
    /\ last.via = "registry" /\ last.agent = K
    /\ PayloadGet(last.acl.payload, "action") = "discover"
    /\ Cardinality(DOMAIN last.registry) = 3
    /\ Len(last.sends) = 1
    /\ last.sends[1].acl.performative = "INFORM"

\* C26: an agent's inbound loop handles at most one envelope at a time and
\* in arrival order: an envelope is taken only when no handling is in
\* progress, it is the oldest one waiting, and while role logic is suspended
\* in the provider's processing delay nothing is taken, the agent's context
\* is not updated, and the only send issued is the one that completes the
\* suspended handling.
OneEnvelopeAtATime ==
    [][ \A a \in Agents :
          /\ Len(inbox'[a]) < Len(inbox[a]) =>
                /\ pc[a] = "idle" /\ ~cur[a].busy
                /\ inbox'[a] = Tail(inbox[a])
                /\ pc'[a] = "idle" =>
                      /\ last'.agent = a
                      /\ last'.acl = from_spade(Head(inbox[a]))
                /\ pc'[a] # "idle" =>
                      /\ cur'[a].busy
                      /\ cur'[a].acl = from_spade(Head(inbox[a]))
          /\ pc[a] # "idle" =>
                /\ Len(inbox'[a]) >= Len(inbox[a])
                /\ _last_sender_by_cid'[a] = _last_sender_by_cid[a]
                /\ _pending'[a] = _pending[a]
                /\ \/ sendq'[a] = sendq[a]
                   \/ sendq[a] # <<>> /\ sendq'[a] = Tail(sendq[a])
                   \/ /\ pc'[a] = "idle"
                      /\ Len(sendq'[a]) = Len(sendq[a]) + 1
                      /\ from_spade(sendq'[a][Len(sendq'[a])]).conversation_id
                            = cur[a].acl.conversation_id
                /\ pc'[a] = "idle" =>
                      /\ last'.agent = a
                      /\ last'.acl = cur[a].acl
                      /\ ~cur'[a].busy ]_vars

\* the provider is suspended in its processing delay while the next
\* REQUEST is already waiting in its inbox
NextWaitsWhileProviderSleeps ==
    /\ pc[P] = "sleep" /\ cur[P].busy
    /\ Len(inbox[P]) = 1
    /\ from_spade(Head(inbox[P])).performative = "REQUEST"

-----------------------------------------------------------------------------
(* Reporter *)

\* every behaviour the n-th message was queued for has taken it
Consumed(n) ==
    /\ \A i \in DOMAIN inbox[Reporter] : inbox[Reporter][i].n # n
    /\ \A i \in DOMAIN sink : sink[i].n # n

\* the records written for the n-th message
RecordsOf(n) == { i \in DOMAIN outdir : outdir[i].n = n }

\* C29: the reporter writes exactly one audit record per message it
\* receives, whatever the wire shape: once a message has been taken by the
\* behaviours it was queued for, it has been recorded by the JSON path
\* (handle_acl) or by the classic path (ClassicAuditSink), never by both
\* and never by neither.
OneAuditRecordPerMessage ==
    \A n \in 1..injected : Consumed(n) => Cardinality(RecordsOf(n)) = 1

-----------------------------------------------------------------------------
(* Delegated replies *)

\* C28: the reasoning backend is invoked for an inbound envelope only when
\* the agent's role is neither coordinator nor provider_simple and the
\* delegation switch is on; with the switch off an agent without a role
\* issues no send for any inbound envelope except the answer to a registry
\* discovery request.
BackendOnlyWhenDelegated ==
    [][ \A a \in Agents :
          /\ pc[a] # "ai_call" /\ pc'[a] = "ai_call" =>
                /\ _role[a] \notin {"coordinator", "provider_simple"}
                /\ _auto_ai[a]
          /\ /\ _role[a] \notin {"coordinator", "provider_simple"}
             /\ ~_auto_ai[a]
             /\ Len(sendq'[a]) > Len(sendq[a])
             => /\ last'.agent = a
                /\ last'.via = "registry"
                /\ IsDiscovery(last'.acl) ]_vars

\* with the switch off an agent without a role handled a REQUEST and sent
\* nothing
RolelessRequestUnanswered ==
    /\ last.via = "handle_acl" /\ last.agent = G
    /\ ~_auto_ai[G] /\ _role[G] = ""
    /\ last.acl.performative = "REQUEST"
    /\ last.sends = <<>>
    /\ last.calls = 0
    /\ sendq[G] = <<>>

DelegatedHandled ==
    /\ last.via = "handle_acl"
    /\ last.agent = G
    /\ last.response.kind # "none"

\* the plan's performative is outside the allowed set, or not permitted
\* after the incoming performative
PlanInvalid(incoming_perf, plan) ==
    LET p == plan.performative
        six == {"REQUEST", "AGREE", "REFUSE", "INFORM", "FAILURE", "CANCEL"}
    IN  \/ p \in {Absent, None, NonStr}
        \/ Upper(p) \notin six
        \/ incoming_perf = "REQUEST" /\ Upper(p) \notin {"AGREE", "REFUSE"}
        \/ incoming_perf = "AGREE" /\ Upper(p) \notin {"INFORM", "FAILURE"}

\* C9: on the delegated path a plan with a performative outside the allowed
\* set, or one the transition rules forbid after the incoming performative,
\* is not sent: the single reply is a REFUSE with the incoming conversation
\* id and an explanatory text, and the backend was called once.
InvalidPlanRefused ==
    /\ DelegatedHandled /\ last.response.kind = "json_obj"
    /\ PlanInvalid(last.acl.performative, last.response.obj)
    => /\ Len(last.sends) = 1
       /\ last.sends[1].to = last.sender
       /\ last.sends[1].acl.performative = "REFUSE"
       /\ last.sends[1].acl.conversation_id = last.acl.conversation_id
       /\ PayloadGet(last.sends[1].acl.payload, "text") \notin {None, ""}
       /\ last.calls = 1

\* an INFORM planned in answer to a REQUEST was replaced by a REFUSE
InvalidTransitionRefused ==
    /\ DelegatedHandled /\ last.response.kind = "json_obj"
    /\ last.acl.performative = "REQUEST"
    /\ last.response.obj.performative = "inform"
    /\ last.response.obj.payload_kind = "dict"
    /\ Len(last.sends) = 1
    /\ last.sends[1].acl.performative = "REFUSE"
    /\ last.sends[1].acl.payload = InvalidTransitionPayload

\* C10: when the backend call fails or times out the agent still replies to
\* the sender, with the default plan for the incoming performative
\* (REQUEST -> AGREE, AGREE -> INFORM).
BackendFailureDefaultPlan ==
    DelegatedHandled /\ last.response.kind = "raise" =>
        /\ Len(last.sends) = 1
        /\ last.sends[1].to = last.sender
        /\ last.acl.performative = "REQUEST"
             => last.sends[1].acl.performative = "AGREE"
        /\ last.acl.performative = "AGREE"
             => last.sends[1].acl.performative = "INFORM"

-----------------------------------------------------------------------------
(* Delegated reply and the transition rules *)

\* C35: every reply ai_respond_to_acl returns, the REFUSE substituted for an
\* invalid plan included, is a valid transition from the incoming
\* performative, for every allowed incoming performative.
DelegatedReplyIsValidTransition ==
    Returned("ai_respond_to_acl") /\ ~Raised(ret) =>
        is_valid_transition(call.incoming.performative, ret.performative)

\* the same for every incoming performative but AGREE
DelegatedReplyValidUnlessAfterAgree ==
    (/\ Returned("ai_respond_to_acl") /\ ~Raised(ret)
     /\ call.incoming.performative # "AGREE") =>
        is_valid_transition(call.incoming.performative, ret.performative)

-----------------------------------------------------------------------------
(* Coordinator forwarding *)

Terminal == {"INFORM", "FAILURE", "REFUSE"}

\* C36: the coordinator forwards a terminal envelope only to an initiator
\* recorded in the Pending-Reply Map for its conversation id; a terminal
\* envelope whose id has no pending entry is never sent back to the peer it
\* came from.
TerminalOnlyToRecordedInitiator ==
    CoordinatorHandled(Terminal) =>
        LET c == last.acl.conversation_id
        IN  /\ \A i \in 1..Len(last.sends) :
                  /\ c \in DOMAIN last.pending_before
                  /\ last.sends[i].to = last.pending_before[c]
            /\ c \notin DOMAIN last.pending_before =>
                  \A i \in 1..Len(last.sends) : last.sends[i].to # last.sender

\* the same with the sender standing in for a missing entry
TerminalToInitiatorOrSender ==
    CoordinatorHandled(Terminal) =>
        LET c == last.acl.conversation_id
        IN  /\ Len(last.sends) = 1
            /\ last.sends[1].to = IF c \in DOMAIN last.pending_before
                                  THEN last.pending_before[c] ELSE last.sender

\* the addresses the handled REQUEST was forwarded to
Downstream ==
    { ret.sends[i].to : i \in { j \in 1..Len(ret.sends) :
                                  ret.sends[j].acl.performative = "REQUEST" } }

\* C37: the coordinator never forwards a REQUEST back to the initiator that
\* sent it: the routed target is a peer other than the coordinator itself
\* and other than the request's sender, for every registry content and
\* request text.
RequestNeverRoutedBack ==
    Returned("handle_acl") =>
        /\ Downstream # {}
        /\ \A t \in Downstream : t # call.self /\ t # call.sender_jid

\* the same for the coordinator alone
RequestNeverRoutedToSelf ==
    Returned("handle_acl") =>
        /\ Downstream # {}
        /\ \A t \in Downstream : t # call.self

-----------------------------------------------------------------------------
(* Registry and aliases *)

Started == { a \in DOMAIN started : started[a] }

\* C38: after any set of agents with distinct addresses has completed setup,
\* every agent is resolvable by its own alias, resolve(agent.alias()) being
\* that agent's own address, and the registry holds one entry per started
\* agent.
EveryAgentResolvableByAlias ==
    /\ \A a \in Started : resolve(_REGISTRY, alias(a)) = a
    /\ Cardinality(DOMAIN _REGISTRY) = Cardinality(Started)

\* the same for started agents no two of which share an alias
ResolvableWhenAliasesDiffer ==
    (\A a, b \in Started : alias(a) = alias(b) => a = b) =>
        /\ \A a \in Started : resolve(_REGISTRY, alias(a)) = a
        /\ Cardinality(DOMAIN _REGISTRY) = Cardinality(Started)

\* an _upd task runs
UpdRan == upd_tasks # <<>> /\ upd_tasks' = Tail(upd_tasks)

\* what _upd must leave when the character of its agent is to be c
UpdLeaves(t, c) ==
    /\ started[t.agent] =>
          /\ t.alias \in DOMAIN _REGISTRY
          /\ _REGISTRY' = [_REGISTRY EXCEPT ![t.alias].character = c]
    /\ ~started[t.agent] => DOMAIN _REGISTRY' = DOMAIN _REGISTRY

\* C39 as stated: once the update task of set_character(text) has run, the
\* entry of the agent's alias has character = text, with every other field
\* as last registered for that alias and the entries of other aliases
\* unchanged; for an agent not yet registered no entry is created.
CharacterIsTextOfTheCall ==
    [][UpdRan => UpdLeaves(Head(upd_tasks), Head(upd_tasks).text)]_vars

\* C39 amended: the same, the character being the agent's _character when
\* the task runs, that is the text of its latest set_character call with
\* leading and trailing whitespace removed.
CharacterIsCurrentCharacter ==
    [][UpdRan => UpdLeaves(Head(upd_tasks),
                           _character[Head(upd_tasks).agent])]_vars

\* a task of provider_office ran after provider_bakery had registered the
\* alias they share, and left the character in that later descriptor
UpdateKeptLaterRegistration ==
    /\ last.via = "_upd" /\ last.agent = P
    /\ started[P]
    /\ _REGISTRY["provider"].jid = P2
    /\ _REGISTRY["provider"].character = strip(last.text)
    /\ _REGISTRY["provider"].character # _env_character_for("provider")

-----------------------------------------------------------------------------
(* Human bridge *)

\* the positions in arrived of the messages of conversation cid
ArrivedIn(cid) == { i \in DOMAIN arrived : conv_id(arrived[i]) = cid }

\* the most recent message of conversation cid
LastArrived(cid) ==
    arrived[CHOOSE i \in ArrivedIn(cid) : \A j \in ArrivedIn(cid) : j <= i]

\* both behaviours have taken every message that arrived
AllReceived == inbox[HumanAgent] = <<>> /\ sink = <<>>

\* the operator replies in conversation cid
Replied(cid) == \E p \in {"INFORM", "agree"} : ConsoleReply(cid, p)

\* C34: 'reply <CID> <PERF> <text>' sends one envelope, to the sender of the
\* most recent message received in conversation CID, whichever its wire
\* shape, and in the wire shape of that message; when no message of CID was
\* received it sends nothing.
ReplyToLastSenderInItsShape ==
    [][\A c \in HumanCids : AllReceived /\ Replied(c) =>
          IF ArrivedIn(c) = {} THEN Issued(HumanAgent) = <<>>
          ELSE /\ Len(Issued(HumanAgent)) = 1
               /\ Issued(HumanAgent)[1].to = LastArrived(c).sender
               /\ Shape(Issued(HumanAgent)[1]) = Shape(LastArrived(c))]_vars

\* the same for a conversation in which the bridge received JSON envelopes
\* only
ReplyToLastJsonSender ==
    [][\A c \in HumanCids :
          (/\ AllReceived /\ Replied(c)
           /\ \A i \in ArrivedIn(c) : Shape(arrived[i]) = "json") =>
          IF ArrivedIn(c) = {} THEN Issued(HumanAgent) = <<>>
          ELSE /\ Len(Issued(HumanAgent)) = 1
               /\ Issued(HumanAgent)[1].to = LastArrived(c).sender
               /\ Shape(Issued(HumanAgent)[1]) = "json"]_vars

====
